---- MODULE Spec2Model ----
(***************************************************************************)
(* A model of the gedcom crate: the line grammar parser (src/parser),      *)
(* the tag vocabulary (models/gedcom/line.rs), the tree builder            *)
(* (models/gedcom/tree.rs) and the relational mapper                       *)
(* (models/relation).                                                      *)
(*                                                                         *)
(* Text is a sequence of one-character strings.  Option<T> is a sequence   *)
(* of length 0 (None) or 1 (Some).                                         *)
(***************************************************************************)
EXTENDS Integers, Sequences, FiniteSets, TLC

\* ------------------------------------------------------------------------
\* Bounds of the model
\* ------------------------------------------------------------------------

\* longest line-record sequence handed to the tree builder
MaxLen == 5

\* deepest level of a line record handed to the tree builder
MaxLevel == 3

\* longest text handed to parse_level
MaxLevelText == 3

\* longest text handed to parse_tag
MaxTagText == 3

\* most lines of a document handed to parse_gedcom
MaxDocLines == 3

\* most roots of a forest handed to the mapper
MaxRoots == 3

\* most children of a Change node handed to change_node_to_date_time
MaxChangeChildren == 2

\* ------------------------------------------------------------------------
\* Generic helpers
\* ------------------------------------------------------------------------

None == <<>>

Some(v) == <<v>>

IsSome(o) == Len(o) = 1

Unwrap(o) == o[1]

\* Iterator::rev().collect()
Reverse(s) == [i \in 1..Len(s) |-> s[Len(s) + 1 - i]]

\* sequences over S of length lo..hi
SeqsOf(S, lo, hi) == UNION {[1..n -> S] : n \in lo..hi}

\* primitive.rs DIGIT
DIGIT == <<"0", "1", "2", "3", "4", "5", "6", "7", "8", "9">>

\* ------------------------------------------------------------------------
\* State
\* ------------------------------------------------------------------------

VARIABLES
    \* tree builder (GedcomTree::from)
    input,            \* the Vec<GedcomLine> handed to from(), kept for reference
    lines,            \* what is left of it (popped from the back)
    nodes,            \* finished roots
    children,         \* pending, not yet attached nodes
    previous_level,
    tree_pc,          \* "idle" | "loop" | "done"
    \* parse_level
    level_input,      \* the text handed to parse_level
    level_result,     \* what it returned
    \* parse_tag
    tag_input,        \* the text handed to parse_tag
    tag_result,       \* what it returned
    \* parse_gedcom and gedcom_to_relation_json
    doc_lines,        \* the lines the document is made of, kept for reference
    doc,              \* the document text
    remainder,        \* the text not yet consumed
    gedcom_lines,     \* the records many1 has collected
    parse_result,     \* what parse_gedcom returned
    tree_input,       \* Some(records handed to GedcomTree::from), or None
    json_result,      \* "NotRun" | "Err" | "Converting"
    parse_pc,         \* "idle" | "bom" | "first" | "more" | "returned" | "done"
    \* mapper (ApiResponse::from)
    tree,             \* the roots of the GedcomTree handed to from()
    node_idx,         \* the root the loop is at
    childs,
    familys,
    persons,
    persons_id_map,   \* label -> Person id
    api_response,     \* Some(what from() returned), or None
    map_pc,           \* "idle" | "walk" | "done" | "panicked"
    \* change_node_to_date_time
    change_node,      \* the Change node handed to it
    change_result     \* Some(what it returned), or None

treeVars == <<input, lines, nodes, children, previous_level, tree_pc>>

levelVars == <<level_input, level_result>>

tagVars == <<tag_input, tag_result>>

parseVars ==
    <<doc_lines, doc, remainder, gedcom_lines, parse_result, tree_input,
      json_result, parse_pc>>

mapVars ==
    <<tree, node_idx, childs, familys, persons, persons_id_map, api_response, map_pc>>

changeVars == <<change_node, change_result>>

vars == <<treeVars, levelVars, tagVars, parseVars, mapVars, changeVars>>

\* a parser that has not run
NotRun == [kind |-> "NotRun", rest |-> <<>>, out |-> <<>>]

\* the parts of the state a run of one component leaves parked
TreeIdle ==
    /\ input = <<>>
    /\ lines = <<>>
    /\ nodes = <<>>
    /\ children = <<>>
    /\ previous_level = 0
    /\ tree_pc = "idle"

LevelIdle == level_input = <<>> /\ level_result = NotRun

TagIdle == tag_input = <<>> /\ tag_result = NotRun

ParseIdle ==
    /\ doc_lines = <<>>
    /\ doc = <<>>
    /\ remainder = <<>>
    /\ gedcom_lines = <<>>
    /\ parse_result = NotRun
    /\ tree_input = <<>>
    /\ json_result = "NotRun"
    /\ parse_pc = "idle"

MapIdle ==
    /\ tree = <<>>
    /\ node_idx = 0
    /\ childs = <<>>
    /\ familys = <<>>
    /\ persons = <<>>
    /\ persons_id_map = <<>>
    /\ api_response = <<>>
    /\ map_pc = "idle"

ChangeIdle == change_node = <<>> /\ change_result = <<>>

notTreeVars == <<levelVars, tagVars, parseVars, mapVars, changeVars>>

NotTreeIdle == LevelIdle /\ TagIdle /\ ParseIdle /\ MapIdle /\ ChangeIdle

notLevelVars == <<treeVars, tagVars, parseVars, mapVars, changeVars>>

NotLevelIdle == TreeIdle /\ TagIdle /\ ParseIdle /\ MapIdle /\ ChangeIdle

notTagVars == <<treeVars, levelVars, parseVars, mapVars, changeVars>>

NotTagIdle == TreeIdle /\ LevelIdle /\ ParseIdle /\ MapIdle /\ ChangeIdle

notParseVars == <<treeVars, levelVars, tagVars, mapVars, changeVars>>

NotParseIdle == TreeIdle /\ LevelIdle /\ TagIdle /\ MapIdle /\ ChangeIdle

notMapVars == <<treeVars, levelVars, tagVars, parseVars, changeVars>>

NotMapIdle == TreeIdle /\ LevelIdle /\ TagIdle /\ ParseIdle /\ ChangeIdle

notChangeVars == <<treeVars, levelVars, tagVars, parseVars, mapVars>>

NotChangeIdle == TreeIdle /\ LevelIdle /\ TagIdle /\ ParseIdle /\ MapIdle

\* ------------------------------------------------------------------------
\* Tree builder: models/gedcom/tree.rs
\* ------------------------------------------------------------------------

\* a tag without text
Tag(kind) == [kind |-> kind, text |-> <<>>]

\* GedcomLine
Line(level, xref_id, tag, line_value) ==
    [level |-> level, line_value |-> line_value, tag |-> tag, xref_id |-> xref_id]

\* GedcomTreeNodeBuilder::from(line).with_children(c).build(): the children
\* are reversed by build
NodeMutNoRev(line, node_children) ==
    [children |-> node_children, level |-> line.level,
     line_value |-> line.line_value, tag |-> line.tag, xref_id |-> line.xref_id]

Node(line, node_children) ==
    [children |-> Reverse(node_children), level |-> line.level,
     line_value |-> line.line_value, tag |-> line.tag, xref_id |-> line.xref_id]

\* children.drain_filter(|c| c.level() == current_level + 1): what is taken
DrainedMutDeeper(buf, current_level) ==
    SelectSeq(buf, LAMBDA c : c.level > current_level)

Drained(buf, current_level) ==
    SelectSeq(buf, LAMBDA c : c.level = current_level + 1)

\* drain_filter as it would be if it emptied the buffer
Retained_MutNothing(buf, current_level) ==
    SelectSeq(buf, LAMBDA c : FALSE)

\* ... and what stays in the buffer
Retained(buf, current_level) ==
    SelectSeq(buf, LAMBDA c : ~(c.level = current_level + 1))

\* let mut previous_level = 100
PreviousLevelInit == 100

\* the payload of the i-th record of a tree builder input: distinct per record
PosText(i) == <<DIGIT[i + 1]>>

TreeInputs ==
    {[i \in 1..Len(ls) |-> Line(ls[i], None, Tag("Note"), Some(PosText(i)))] :
        ls \in SeqsOf(0..MaxLevel, 1, MaxLen)}

TreeInit ==
    /\ input \in TreeInputs
    /\ lines = input
    /\ nodes = <<>>
    /\ children = <<>>
    /\ previous_level = PreviousLevelInit
    /\ tree_pc = "loop"
    /\ NotTreeIdle

\* the first branch as it would be if the buffer were copied, not drained
TreeLevelZero_MutKeepsBuffer ==
    /\ tree_pc = "loop"
    /\ lines # <<>>
    /\ LET line == lines[Len(lines)]
           current_level == line.level
       IN  /\ current_level = 0
           /\ nodes' = Append(nodes, Node(line, children))
           /\ children' = children
           /\ previous_level' = current_level
    /\ lines' = SubSeq(lines, 1, Len(lines) - 1)
    /\ UNCHANGED <<input, tree_pc, notTreeVars>>

\* one iteration of `while let Some(line) = lines.pop()`, first branch
TreeLevelZero ==
    /\ tree_pc = "loop"
    /\ lines # <<>>
    /\ LET line == lines[Len(lines)]
           current_level == line.level
       IN  /\ current_level = 0
           /\ nodes' = Append(nodes, Node(line, children))
           /\ children' = <<>>
           /\ previous_level' = current_level
    /\ lines' = SubSeq(lines, 1, Len(lines) - 1)
    /\ UNCHANGED <<input, tree_pc, notTreeVars>>

\* second branch: current_level < previous_level
TreeShallower ==
    /\ tree_pc = "loop"
    /\ lines # <<>>
    /\ LET line == lines[Len(lines)]
           current_level == line.level
       IN  /\ current_level # 0
           /\ current_level < previous_level
           /\ children' = Append(Retained(children, current_level),
                                 Node(line, Drained(children, current_level)))
           /\ previous_level' = current_level
    /\ lines' = SubSeq(lines, 1, Len(lines) - 1)
    /\ UNCHANGED <<input, nodes, tree_pc, notTreeVars>>

\* third branch
TreeOther ==
    /\ tree_pc = "loop"
    /\ lines # <<>>
    /\ LET line == lines[Len(lines)]
           current_level == line.level
       IN  /\ current_level # 0
           /\ ~(current_level < previous_level)
           /\ children' = Append(children, Node(line, <<>>))
           /\ previous_level' = current_level
    /\ lines' = SubSeq(lines, 1, Len(lines) - 1)
    /\ UNCHANGED <<input, nodes, tree_pc, notTreeVars>>

\* the loop ends: nodes.reverse(); Self { nodes }
TreeFinishMutNoReverse ==
    /\ tree_pc = "loop"
    /\ lines = <<>>
    /\ tree_pc' = "done"
    /\ UNCHANGED <<input, lines, nodes, children, previous_level, notTreeVars>>

TreeFinish ==
    /\ tree_pc = "loop"
    /\ lines = <<>>
    /\ nodes' = Reverse(nodes)
    /\ tree_pc' = "done"
    /\ UNCHANGED <<input, lines, children, previous_level, notTreeVars>>

TreeNext ==
    \/ TreeLevelZero
    \/ TreeShallower
    \/ TreeOther
    \/ TreeFinish

SpecTree == TreeInit /\ [][TreeNext]_vars

\* ------------------------------------------------------------------------
\* Reading a forest
\* ------------------------------------------------------------------------

RECURSIVE FlattenNode(_)
RECURSIVE FlattenAll(_)

\* the line record a node was built from
LineOf(n) == Line(n.level, n.xref_id, n.tag, n.line_value)

\* pre-order: the node, then its children in list order
FlattenNode(n) == <<LineOf(n)>> \o FlattenAll(n.children)

FlattenAll(ns) ==
    IF ns = <<>> THEN <<>> ELSE FlattenNode(Head(ns)) \o FlattenAll(Tail(ns))

RECURSIVE NodesOf(_)

\* every node of a forest, at any depth
NodesOf(ns) ==
    IF ns = <<>> THEN {}
    ELSE {Head(ns)} \cup NodesOf(Head(ns).children) \cup NodesOf(Tail(ns))

TreeDone == tree_pc = "done"

\* each record's level is at most the previous record's level + 1
NoLevelJump(ls) == \A i \in 2..Len(ls) : ls[i].level <= ls[i - 1].level + 1

ChildrenOneDeeper(n) ==
    \A i \in 1..Len(n.children) : n.children[i].level = n.level + 1

\* ------------------------------------------------------------------------
\* Characters: parser/primitive.rs
\* ------------------------------------------------------------------------

UPPER ==
    <<"A", "B", "C", "D", "E", "F", "G", "H", "I", "J", "K", "L", "M",
      "N", "O", "P", "Q", "R", "S", "T", "U", "V", "W", "X", "Y", "Z">>

LOWER ==
    <<"a", "b", "c", "d", "e", "f", "g", "h", "i", "j", "k", "l", "m",
      "n", "o", "p", "q", "r", "s", "t", "u", "v", "w", "x", "y", "z">>

Range(s) == {s[i] : i \in 1..Len(s)}

\* ALPHA: A-Z, a-z and the underscore
ALPHA == Range(UPPER) \cup Range(LOWER) \cup {"_"}

DigitChars == Range(DIGIT)

\* parse_alphanum: alt((parse_alpha, parse_digit))
AlphanumChars == ALPHA \cup DigitChars

AT == "@"

CR == "\r"

DELIM == " "

HASH == "#"

LF == "\n"

\* OTHERCHAR, the code points below 0x80 but 0x60, the grave accent (no text
\* of the model holds it or one of 0x80..0xFE)
OTHERCHAR ==
    {"!", "\"", "$", "%", "&", "'", "(", ")", "*", "+", ",", "-", ".", "/",
     ":", ";", "<", "=", ">", "?", "[", "\\", "]", "^", "{", "|", "}", "~"}

\* parse_nonat: alt((alpha, delim, digit, hash, otherchar))
NonAtChars == ALPHA \cup {DELIM} \cup DigitChars \cup {HASH} \cup OTHERCHAR

\* ------------------------------------------------------------------------
\* Parser results: nom's IResult
\* ------------------------------------------------------------------------

\* Ok((rest, out))
POk(rest, out) == [kind |-> "Ok", rest |-> rest, out |-> Some(out)]

\* Err(Err::Error((at, _))): recoverable
PError(at) == [kind |-> "Error", rest |-> at, out |-> None]

\* Err(Err::Failure((at, _))): unrecoverable
PFailure(at) == [kind |-> "Failure", rest |-> at, out |-> None]

IsOk(r) == r.kind = "Ok"

Min(a, b) == IF a <= b THEN a ELSE b

\* how many leading characters of text a repeated one-character parser over
\* the class S takes, when it may take at most n
PrefixLen(text, S, n) ==
    LET bound == Min(n, Len(text))
    IN  CHOOSE j \in 0..bound :
            /\ \A i \in 1..j : text[i] \in S
            /\ (j = bound \/ text[j + 1] \notin S)

Drop(text, k) == SubSeq(text, k + 1, Len(text))

Take(text, k) == SubSeq(text, 1, k)

\* ------------------------------------------------------------------------
\* parse_level: parser/level.rs
\* ------------------------------------------------------------------------

\* the most digits many_m_n(1, 2, parse_digit) takes
LevelMaxDigits == 2

\* the least it needs
LevelMinDigits == 1

\* u8::MAX
U8Max == 255

DigitValue(c) == (CHOOSE i \in 1..Len(DIGIT) : DIGIT[i] = c) - 1

RECURSIVE DecimalValue(_)

DecimalValue(digits) ==
    IF digits = <<>> THEN 0
    ELSE 10 * DecimalValue(Take(digits, Len(digits) - 1))
           + DigitValue(digits[Len(digits)])

\* str::parse::<u8>() of a text of digits
ParseU8(digits) ==
    IF DecimalValue(digits) <= U8Max THEN Some(DecimalValue(digits)) ELSE None

\* many_m_n(m, n, parse_digit)
ManyMNDigit(m, n, text) ==
    LET k == PrefixLen(text, DigitChars, n)
    IN  IF k < m THEN PError(Drop(text, k)) ELSE POk(Drop(text, k), Take(text, k))

parse_level_MutThreeDigits(text) ==
    LET r == ManyMNDigit(LevelMinDigits, LevelMaxDigits + 1, text)
    IN  IF ~IsOk(r) THEN r
        ELSE LET output == Unwrap(r.out)
             IN  IF Len(output) = 2 /\ output[1] = "0" THEN PFailure(r.rest)
                 ELSE IF IsSome(ParseU8(output))
                      THEN POk(r.rest, Unwrap(ParseU8(output)))
                      ELSE PFailure(r.rest)

parse_level(text) ==
    LET r == ManyMNDigit(LevelMinDigits, LevelMaxDigits, text)
    IN  IF ~IsOk(r) THEN r
        ELSE LET output == Unwrap(r.out)
             IN  IF Len(output) = 2 /\ output[1] = "0" THEN PFailure(r.rest)
                 ELSE IF IsSome(ParseU8(output))
                      THEN POk(r.rest, Unwrap(ParseU8(output)))
                      ELSE PFailure(r.rest)

\* the characters of the texts handed to parse_level
LevelAlphabet == {"0", "1", "9", DELIM, "A"}

LevelInit ==
    /\ level_input \in SeqsOf(LevelAlphabet, 0, MaxLevelText)
    /\ level_result = NotRun
    /\ NotLevelIdle

ParseLevel ==
    /\ level_result = NotRun
    /\ level_result' = parse_level(level_input)
    /\ UNCHANGED <<level_input, notLevelVars>>

LevelNext == ParseLevel

SpecLevel == LevelInit /\ [][LevelNext]_vars

\* ------------------------------------------------------------------------
\* Tag vocabulary: models/gedcom/line.rs, and parse_tag: parser/tag.rs
\* ------------------------------------------------------------------------

\* GedcomLineTag::Custom(text)
Custom(text) == [kind |-> "Custom", text |-> text]

\* the arms of `match value` that name a code
FromStrKnown(value) ==
    CASE value = <<"A", "B", "B", "R">> -> Some(Tag("Abbreviation"))
      [] value = <<"A", "D", "D", "R">> -> Some(Tag("Address"))
      [] value = <<"A", "D", "R", "1">> -> Some(Tag("Address1"))
      [] value = <<"A", "D", "R", "2">> -> Some(Tag("Address2"))
      [] value = <<"A", "D", "O", "P">> -> Some(Tag("Adoption"))
      [] value = <<"A", "F", "N">> -> Some(Tag("AncestralFileNumber"))
      [] value = <<"A", "G", "E">> -> Some(Tag("Age"))
      [] value = <<"A", "G", "N", "C">> -> Some(Tag("Agency"))
      [] value = <<"A", "L", "I", "A">> -> Some(Tag("Alias"))
      [] value = <<"A", "N", "C", "E">> -> Some(Tag("Ancestors"))
      [] value = <<"A", "N", "C", "I">> -> Some(Tag("AncestorInterest"))
      [] value = <<"A", "N", "U", "L">> -> Some(Tag("Annulment"))
      [] value = <<"A", "S", "S", "O">> -> Some(Tag("Associates"))
      [] value = <<"A", "U", "T", "H">> -> Some(Tag("Author"))
      [] value = <<"B", "A", "P", "L">> -> Some(Tag("BaptismLds"))
      [] value = <<"B", "A", "P", "M">> -> Some(Tag("Baptism"))
      [] value = <<"B", "A", "R", "M">> -> Some(Tag("BarMitzvah"))
      [] value = <<"B", "A", "S", "M">> -> Some(Tag("BasMitzvah"))
      [] value = <<"B", "I", "R", "T">> -> Some(Tag("Birth"))
      [] value = <<"B", "L", "E", "S">> -> Some(Tag("Blessing"))
      [] value = <<"B", "U", "R", "I">> -> Some(Tag("Burial"))
      [] value = <<"C", "A", "L", "N">> -> Some(Tag("CallNumber"))
      [] value = <<"C", "A", "S", "T">> -> Some(Tag("Caste"))
      [] value = <<"C", "A", "U", "S">> -> Some(Tag("Cause"))
      [] value = <<"C", "E", "N", "S">> -> Some(Tag("Census"))
      [] value = <<"C", "H", "A", "N">> -> Some(Tag("Change"))
      [] value = <<"C", "H", "A", "R">> -> Some(Tag("Character"))
      [] value = <<"C", "H", "I", "L">> -> Some(Tag("Child"))
      [] value = <<"C", "H", "R">> -> Some(Tag("Christening"))
      [] value = <<"C", "H", "R", "A">> -> Some(Tag("AdultChristening"))
      [] value = <<"C", "I", "T", "Y">> -> Some(Tag("City"))
      [] value = <<"C", "O", "N", "C">> -> Some(Tag("Concatenation"))
      [] value = <<"C", "O", "N", "F">> -> Some(Tag("Confirmation"))
      [] value = <<"C", "O", "N", "L">> -> Some(Tag("ConfirmationLds"))
      [] value = <<"C", "O", "N", "T">> -> Some(Tag("Continued"))
      [] value = <<"C", "O", "P", "R">> -> Some(Tag("Copyright"))
      [] value = <<"C", "O", "R", "P">> -> Some(Tag("Corporate"))
      [] value = <<"C", "R", "E", "M">> -> Some(Tag("Cremation"))
      [] value = <<"C", "T", "R", "Y">> -> Some(Tag("Country"))
      [] value = <<"D", "A", "T", "A">> -> Some(Tag("Data"))
      [] value = <<"D", "A", "T", "E">> -> Some(Tag("Date"))
      [] value = <<"D", "E", "A", "T">> -> Some(Tag("Death"))
      [] value = <<"D", "E", "S", "C">> -> Some(Tag("Descendants"))
      [] value = <<"D", "E", "S", "I">> -> Some(Tag("DescendantInterest"))
      [] value = <<"D", "E", "S", "T">> -> Some(Tag("Destination"))
      [] value = <<"D", "I", "V">> -> Some(Tag("Divorce"))
      [] value = <<"D", "I", "V", "F">> -> Some(Tag("DivorceFiled"))
      [] value = <<"D", "S", "C", "R">> -> Some(Tag("PhysicalDescription"))
      [] value = <<"E", "D", "U", "C">> -> Some(Tag("Education"))
      [] value = <<"E", "M", "A", "I">> -> Some(Tag("Email"))
      [] value = <<"E", "M", "I", "G">> -> Some(Tag("Emigration"))
      [] value = <<"E", "N", "D", "L">> -> Some(Tag("Endowment"))
      [] value = <<"E", "N", "G", "A">> -> Some(Tag("Engagement"))
      [] value = <<"E", "V", "E", "N">> -> Some(Tag("Event"))
      [] value = <<"F", "A", "C", "T">> -> Some(Tag("Fact"))
      [] value = <<"F", "A", "M">> -> Some(Tag("Family"))
      [] value = <<"F", "A", "M", "C">> -> Some(Tag("FamilyChild"))
      [] value = <<"F", "A", "M", "F">> -> Some(Tag("FamilyFile"))
      [] value = <<"F", "A", "M", "S">> -> Some(Tag("FamilySpouse"))
      [] value = <<"F", "A", "X">> -> Some(Tag("Facsimile"))
      [] value = <<"F", "C", "O", "M">> -> Some(Tag("FirstCommunion"))
      [] value = <<"F", "I", "L", "E">> -> Some(Tag("File"))
      [] value = <<"F", "O", "R", "M">> -> Some(Tag("Format"))
      [] value = <<"F", "O", "N", "E">> -> Some(Tag("Phonetic"))
      [] value = <<"G", "E", "D", "C">> -> Some(Tag("Gedcom"))
      [] value = <<"G", "I", "V", "N">> -> Some(Tag("GivenName"))
      [] value = <<"G", "R", "A", "D">> -> Some(Tag("Graduation"))
      [] value = <<"H", "E", "A", "D">> -> Some(Tag("Header"))
      [] value = <<"H", "U", "S", "B">> -> Some(Tag("Husband"))
      [] value = <<"I", "D", "N", "O">> -> Some(Tag("IdentityNumber"))
      [] value = <<"I", "M", "M", "I">> -> Some(Tag("Immigration"))
      [] value = <<"I", "N", "D", "I">> -> Some(Tag("Individual"))
      [] value = <<"L", "A", "N", "G">> -> Some(Tag("Language"))
      [] value = <<"L", "A", "T", "I">> -> Some(Tag("Latitude"))
      [] value = <<"L", "O", "N", "G">> -> Some(Tag("Longitude"))
      [] value = <<"M", "A", "P">> -> Some(Tag("Map"))
      [] value = <<"M", "A", "R", "B">> -> Some(Tag("MarriageBanns"))
      [] value = <<"M", "A", "R", "C">> -> Some(Tag("MarriageContract"))
      [] value = <<"M", "A", "R", "L">> -> Some(Tag("MarriageLicense"))
      [] value = <<"M", "A", "R", "R">> -> Some(Tag("Marriage"))
      [] value = <<"M", "A", "R", "S">> -> Some(Tag("MarriageSettlement"))
      [] value = <<"M", "E", "D", "I">> -> Some(Tag("Media"))
      [] value = <<"N", "A", "M", "E">> -> Some(Tag("Name"))
      [] value = <<"N", "A", "T", "I">> -> Some(Tag("Nationality"))
      [] value = <<"N", "A", "T", "U">> -> Some(Tag("Naturalisation"))
      [] value = <<"N", "C", "H", "I">> -> Some(Tag("ChildrenCount"))
      [] value = <<"N", "I", "C", "K">> -> Some(Tag("Nickname"))
      [] value = <<"N", "M", "R">> -> Some(Tag("MarriageCount"))
      [] value = <<"N", "O", "T", "E">> -> Some(Tag("Note"))
      [] value = <<"N", "P", "F", "X">> -> Some(Tag("NamePrefix"))
      [] value = <<"N", "S", "F", "X">> -> Some(Tag("NameSuffix"))
      [] value = <<"O", "B", "J", "E">> -> Some(Tag("Object"))
      [] value = <<"O", "C", "C", "U">> -> Some(Tag("Occupation"))
      [] value = <<"O", "R", "D", "I">> -> Some(Tag("Ordinance"))
      [] value = <<"O", "R", "D", "N">> -> Some(Tag("Ordination"))
      [] value = <<"P", "A", "G", "E">> -> Some(Tag("Page"))
      [] value = <<"P", "E", "D", "I">> -> Some(Tag("Pedigree"))
      [] value = <<"P", "H", "O", "N">> -> Some(Tag("Phone"))
      [] value = <<"P", "L", "A", "C">> -> Some(Tag("Place"))
      [] value = <<"P", "O", "S", "T">> -> Some(Tag("PostalCode"))
      [] value = <<"P", "R", "O", "B">> -> Some(Tag("Probate"))
      [] value = <<"P", "R", "O", "P">> -> Some(Tag("Property"))
      [] value = <<"P", "U", "B", "L">> -> Some(Tag("Publication"))
      [] value = <<"Q", "U", "A", "Y">> -> Some(Tag("QualityOfData"))
      [] value = <<"R", "E", "F", "N">> -> Some(Tag("Reference"))
      [] value = <<"R", "E", "L", "A">> -> Some(Tag("Relationship"))
      [] value = <<"R", "E", "L", "I">> -> Some(Tag("Religion"))
      [] value = <<"R", "E", "P", "O">> -> Some(Tag("Repository"))
      [] value = <<"R", "E", "S", "I">> -> Some(Tag("Residence"))
      [] value = <<"R", "E", "S", "N">> -> Some(Tag("Restriction"))
      [] value = <<"R", "E", "T", "I">> -> Some(Tag("Retirement"))
      [] value = <<"R", "F", "N">> -> Some(Tag("RecordFileNumber"))
      [] value = <<"R", "I", "N">> -> Some(Tag("RecordIdNumber"))
      [] value = <<"R", "O", "L", "E">> -> Some(Tag("Role"))
      [] value = <<"R", "O", "M", "N">> -> Some(Tag("Romanised"))
      [] value = <<"S", "E", "X">> -> Some(Tag("Sex"))
      [] value = <<"S", "L", "G", "C">> -> Some(Tag("SealingChild"))
      [] value = <<"S", "L", "G", "S">> -> Some(Tag("SealingSpouse"))
      [] value = <<"S", "O", "U", "R">> -> Some(Tag("Source"))
      [] value = <<"S", "P", "F", "X">> -> Some(Tag("SurnamePrefix"))
      [] value = <<"S", "S", "N">> -> Some(Tag("SocialSecurityNumber"))
      [] value = <<"S", "T", "A", "E">> -> Some(Tag("State"))
      [] value = <<"S", "T", "A", "T">> -> Some(Tag("Status"))
      [] value = <<"S", "U", "B", "M">> -> Some(Tag("Submitter"))
      [] value = <<"S", "U", "B", "N">> -> Some(Tag("Submission"))
      [] value = <<"S", "U", "R", "N">> -> Some(Tag("Surname"))
      [] value = <<"T", "E", "M", "P">> -> Some(Tag("Temple"))
      [] value = <<"T", "E", "X", "T">> -> Some(Tag("Text"))
      [] value = <<"T", "I", "M", "E">> -> Some(Tag("Time"))
      [] value = <<"T", "I", "T", "L">> -> Some(Tag("Title"))
      [] value = <<"T", "R", "L", "R">> -> Some(Tag("Trailer"))
      [] value = <<"T", "Y", "P", "E">> -> Some(Tag("Type"))
      [] value = <<"V", "E", "R", "S">> -> Some(Tag("Version"))
      [] value = <<"W", "I", "F", "E">> -> Some(Tag("Wife"))
      [] value = <<"W", "I", "L", "L">> -> Some(Tag("Will"))
      [] value = <<"W", "W", "W">> -> Some(Tag("Web"))
      [] OTHER -> None

\* the character class of VALID_CUSTOM_TAG
CustomTagChars == Range(UPPER) \cup Range(LOWER) \cup DigitChars \cup {"_"}

\* VALID_CUSTOM_TAG.is_match(value): ^(_[A-Za-z0-9_]+)$
ValidCustomTag_MutStar(value) ==
    /\ Len(value) >= 1
    /\ value[1] = "_"
    /\ \A i \in 2..Len(value) : value[i] \in CustomTagChars

ValidCustomTag(value) ==
    /\ Len(value) >= 2
    /\ value[1] = "_"
    /\ \A i \in 2..Len(value) : value[i] \in CustomTagChars

\* GedcomLineTag::from_str: Some(tag) is Ok(tag), None is Err
FromStr(value) ==
    IF IsSome(FromStrKnown(value)) THEN FromStrKnown(value)
    ELSE IF ValidCustomTag(value) THEN Some(Custom(value))
    ELSE None

\* many1(parse_alphanum)
Many1Alphanum(text) ==
    LET k == PrefixLen(text, AlphanumChars, Len(text))
    IN  IF k < 1 THEN PError(text) ELSE POk(Drop(text, k), Take(text, k))

parse_tag(text) ==
    LET r == Many1Alphanum(text)
    IN  IF ~IsOk(r) THEN r
        ELSE LET tag == FromStr(Unwrap(r.out))
             IN  IF IsSome(tag) THEN POk(r.rest, Unwrap(tag))
                 ELSE PFailure(r.rest)

\* the characters of the texts handed to parse_tag
TagAlphabet == {"S", "E", "X", "A", "G", "s", "e", "x", "_", "1", DELIM}

TagInit ==
    /\ tag_input \in SeqsOf(TagAlphabet, 0, MaxTagText)
    /\ tag_result = NotRun
    /\ NotTagIdle

ParseTag ==
    /\ tag_result = NotRun
    /\ tag_result' = parse_tag(tag_input)
    /\ UNCHANGED <<tag_input, notTagVars>>

TagNext == ParseTag

SpecTag == TagInit /\ [][TagNext]_vars

\* ------------------------------------------------------------------------
\* The line grammar: parser.rs, parser/pointer.rs, parser/xref_id.rs,
\* parser/line_value.rs, parser/terminator.rs, parser/util.rs
\* ------------------------------------------------------------------------

\* char(c)
ParseChar(c, text) ==
    IF text # <<>> /\ text[1] = c THEN POk(Drop(text, 1), <<c>>) ELSE PError(text)

parse_delim(text) == ParseChar(DELIM, text)

\* opt(p): a recoverable error is Ok with None and nothing consumed
Opt(r, text) ==
    IF r.kind = "Error" THEN [kind |-> "Ok", rest |-> text, out |-> Some(None)]
    ELSE IF IsOk(r) THEN [kind |-> "Ok", rest |-> r.rest, out |-> Some(r.out)]
    ELSE r

\* tuple((parse_at, parse_alphanum, parse_pointer_string, parse_at))
parse_pointer(text) ==
    IF ~(text # <<>> /\ text[1] = AT) THEN PError(text)
    ELSE IF ~(Len(text) >= 2 /\ text[2] \in AlphanumChars) THEN PError(Drop(text, 1))
    ELSE LET k == PrefixLen(Drop(text, 2), NonAtChars, Len(text))
             after == Drop(text, 2 + k)
         IN  IF after # <<>> /\ after[1] = AT
             THEN POk(Drop(after, 1), Take(text, 3 + k))
             ELSE PError(after)

\* terminated(parse_xref_id, parse_delim)
parse_optional_xref_id(text) ==
    LET p == parse_pointer(text)
    IN  IF ~IsOk(p) THEN p
        ELSE IF IsOk(parse_delim(p.rest)) THEN POk(Drop(p.rest, 1), Unwrap(p.out))
        ELSE PError(p.rest)

RECURSIVE AnycharsLen(_)

\* how many characters many1(parse_anychar) takes: one character that is not
\* an `@`, or two `@`, at a time
AnycharsLen(text) ==
    IF text = <<>> THEN 0
    ELSE IF text[1] \in NonAtChars THEN 1 + AnycharsLen(Drop(text, 1))
    ELSE IF Len(text) >= 2 /\ text[1] = AT /\ text[2] = AT
         THEN 2 + AnycharsLen(Drop(text, 2))
    ELSE 0

\* how many characters parse_escape takes, 0 when it fails:
\* tuple((parse_at, parse_hash, parse_escape_text, parse_at, parse_nonat))
EscapeLen(text) ==
    IF ~(Len(text) >= 2 /\ text[1] = AT /\ text[2] = HASH) THEN 0
    ELSE LET k == AnycharsLen(Drop(text, 2))
         IN  IF /\ k >= 1
                /\ Len(text) >= k + 4
                /\ text[k + 3] = AT
                /\ text[k + 4] \in NonAtChars
             THEN k + 4
             ELSE 0

RECURSIVE LineItemLen(_)

\* how many characters many1(alt((parse_anychar, parse_escape))) takes
LineItemLen(text) ==
    IF text = <<>> THEN 0
    ELSE IF text[1] \in NonAtChars THEN 1 + LineItemLen(Drop(text, 1))
    ELSE IF Len(text) >= 2 /\ text[1] = AT /\ text[2] = AT
         THEN 2 + LineItemLen(Drop(text, 2))
    ELSE IF EscapeLen(text) > 0
         THEN EscapeLen(text) + LineItemLen(Drop(text, EscapeLen(text)))
    ELSE 0

parse_line_item(text) ==
    LET k == LineItemLen(text)
    IN  IF k < 1 THEN PError(text) ELSE POk(Drop(text, k), Take(text, k))

\* alt((parse_line_item, parse_pointer))
parse_line_value(text) ==
    IF IsOk(parse_line_item(text)) THEN parse_line_item(text) ELSE parse_pointer(text)

\* preceded(parse_delim, parse_line_value)
parse_optional_line_value(text) ==
    IF ~IsOk(parse_delim(text)) THEN parse_delim(text)
    ELSE parse_line_value(Drop(text, 1))

\* alt((parse_crlf, parse_lfcr, parse_carriage_return, parse_line_feed))
parse_terminator(text) ==
    IF Len(text) >= 2 /\ text[1] = CR /\ text[2] = LF THEN POk(Drop(text, 2), <<CR, LF>>)
    ELSE IF Len(text) >= 2 /\ text[1] = LF /\ text[2] = CR
         THEN POk(Drop(text, 2), <<LF, CR>>)
    ELSE IF text # <<>> /\ text[1] = CR THEN POk(Drop(text, 1), <<CR>>)
    ELSE IF text # <<>> /\ text[1] = LF THEN POk(Drop(text, 1), <<LF>>)
    ELSE PError(text)

\* five_tuple_to_gedcom_line, once the terminator has been tried
LineAfterTerminator(level, optional_xref_id, tag, optional_line_value, terminator) ==
    IF ~IsOk(terminator) THEN terminator
    ELSE POk(terminator.rest,
             Line(Unwrap(level.out), Unwrap(optional_xref_id.out),
                  Unwrap(tag.out), Unwrap(optional_line_value.out)))

\* ... parse_terminator, once the optional value has been tried
LineAfterValue(level, optional_xref_id, tag, optional_line_value) ==
    IF ~IsOk(optional_line_value) THEN optional_line_value
    ELSE LineAfterTerminator(level, optional_xref_id, tag, optional_line_value,
                             parse_terminator(optional_line_value.rest))

\* ... opt(parse_optional_line_value), once the tag has been tried
LineAfterTag(level, optional_xref_id, tag) ==
    IF ~IsOk(tag) THEN tag
    ELSE LineAfterValue(level, optional_xref_id, tag,
                        Opt(parse_optional_line_value(tag.rest), tag.rest))

\* ... parse_tag, once the optional label has been tried
LineAfterXrefId(level, optional_xref_id) ==
    IF ~IsOk(optional_xref_id) THEN optional_xref_id
    ELSE LineAfterTag(level, optional_xref_id, parse_tag(optional_xref_id.rest))

\* ... opt(parse_optional_xref_id), once the delimiter has been tried
LineAfterDelim(level, delim) ==
    IF ~IsOk(delim) THEN delim
    ELSE LineAfterXrefId(level, Opt(parse_optional_xref_id(delim.rest), delim.rest))

\* ... parse_delim, once the level has been tried
LineAfterLevel(level) ==
    IF ~IsOk(level) THEN level ELSE LineAfterDelim(level, parse_delim(level.rest))

\* tuple((parse_level, parse_delim, opt(parse_optional_xref_id), parse_tag,
\*        opt(parse_optional_line_value), parse_terminator))
\*     .map(five_tuple_to_gedcom_line)
parse_gedcom_line(text) == LineAfterLevel(parse_level(text))

\* the byte-order mark U+FEFF, one character of a text
BOM == "BOM"

\* parse_optional_bom: opt(char('\u{feff}'))
parse_optional_bom(text) == Opt(ParseChar(BOM, text), text)

\* ------------------------------------------------------------------------
\* parse_gedcom and what gedcom_to_relation_json does with its result
\* ------------------------------------------------------------------------

\* 0 HEAD\n: a record without label and value
DocLineHead ==
    <<"0", DELIM, "H", "E", "A", "D", LF>>

\* 0 @I1@ INDI\r\n: a record with a label, ended by CRLF
DocLineIndi ==
    <<"0", DELIM, AT, "I", "1", AT, DELIM, "I", "N", "D", "I", CR, LF>>

\* 1 SEX M\n: a record with a value
DocLineSex ==
    <<"1", DELIM, "S", "E", "X", DELIM, "M", LF>>

\* X HEAD\n: no digit where the level is due
DocLineBadLevel ==
    <<"X", DELIM, "H", "E", "A", "D", LF>>

\* 0HEAD\n: no delimiter after the level
DocLineNoDelim ==
    <<"0", "H", "E", "A", "D", LF>>

\* 1 NOTE @#x\n: an escape sequence that is not closed
DocLineBadEscape ==
    <<"1", DELIM, "N", "O", "T", "E", DELIM, AT, HASH, "x", LF>>

\* 00 HEAD\n: a two-digit level that starts with 0
DocLineZeroLevel ==
    <<"0", "0", DELIM, "H", "E", "A", "D", LF>>

\* 0 HEAT\n: a tag that is no known code and no custom tag
DocLineBadTag ==
    <<"0", DELIM, "H", "E", "A", "T", LF>>

\* 0 TRLR: a last line without terminator
DocLineNoTerminator ==
    <<"0", DELIM, "T", "R", "L", "R">>

\* the lines a document of the model is made of
DocLineCatalog ==
    {DocLineHead, DocLineIndi, DocLineSex, DocLineBadLevel, DocLineNoDelim,
     DocLineBadEscape, DocLineZeroLevel, DocLineBadTag, DocLineNoTerminator}

\* a line ends with a terminator
IsTerminated(l) == l # <<>> /\ l[Len(l)] \in {CR, LF}

RECURSIVE Concat(_)

Concat(ls) == IF ls = <<>> THEN <<>> ELSE Head(ls) \o Concat(Tail(ls))

\* documents: lines of the catalog, of which only the last may lack its
\* terminator
DocLineSeqs ==
    {ls \in SeqsOf(DocLineCatalog, 1, MaxDocLines) :
        \A i \in 1..(Len(ls) - 1) : IsTerminated(ls[i])}

ParseInit ==
    /\ doc_lines \in DocLineSeqs
    /\ \E bom \in {<<>>, <<BOM>>} : doc = bom \o Concat(doc_lines)
    /\ remainder = doc
    /\ gedcom_lines = <<>>
    /\ parse_result = NotRun
    /\ tree_input = None
    /\ json_result = "NotRun"
    /\ parse_pc = "bom"
    /\ NotParseIdle

\* preceded(parse_optional_bom, ...)
ParseBom ==
    /\ parse_pc = "bom"
    /\ remainder' = parse_optional_bom(remainder).rest
    /\ parse_pc' = "first"
    /\ UNCHANGED <<doc_lines, doc, gedcom_lines, parse_result, tree_input,
                   json_result, notParseVars>>

\* many1(parse_gedcom_line): the line parser succeeds, the record is kept
ParseLineOk ==
    /\ parse_pc \in {"first", "more"}
    /\ LET line == parse_gedcom_line(remainder)
       IN  /\ IsOk(line)
           /\ gedcom_lines' = Append(gedcom_lines, Unwrap(line.out))
           /\ remainder' = line.rest
    /\ parse_pc' = "more"
    /\ UNCHANGED <<doc_lines, doc, parse_result, tree_input, json_result,
                   notParseVars>>

\* many1 as it would be if a recoverable error on a later line were an
\* error of the whole
ParseLineError_MutAlwaysError ==
    /\ parse_pc \in {"first", "more"}
    /\ parse_gedcom_line(remainder).kind = "Error"
    /\ parse_result' = PError(remainder)
    /\ parse_pc' = "returned"
    /\ UNCHANGED <<doc_lines, doc, remainder, gedcom_lines, tree_input, json_result,
                   notParseVars>>

\* many1: a recoverable error is an error on the first line, and the end of
\* the repetition on a later line
ParseLineError ==
    /\ parse_pc \in {"first", "more"}
    /\ parse_gedcom_line(remainder).kind = "Error"
    /\ parse_result' =
          IF parse_pc = "first" THEN PError(remainder) ELSE POk(remainder, gedcom_lines)
    /\ parse_pc' = "returned"
    /\ UNCHANGED <<doc_lines, doc, remainder, gedcom_lines, tree_input, json_result,
                   notParseVars>>

\* many1 as it would be if it ended the repetition on an unrecoverable
\* failure as it does on a recoverable error
ParseLineFailure_MutAsError ==
    /\ parse_pc \in {"first", "more"}
    /\ parse_gedcom_line(remainder).kind = "Failure"
    /\ parse_result' =
          IF parse_pc = "first" THEN PError(remainder) ELSE POk(remainder, gedcom_lines)
    /\ parse_pc' = "returned"
    /\ UNCHANGED <<doc_lines, doc, remainder, gedcom_lines, tree_input, json_result,
                   notParseVars>>

\* many1: an unrecoverable failure is returned as it is
ParseLineFailure ==
    /\ parse_pc \in {"first", "more"}
    /\ LET line == parse_gedcom_line(remainder)
       IN  /\ line.kind = "Failure"
           /\ parse_result' = line
    /\ parse_pc' = "returned"
    /\ UNCHANGED <<doc_lines, doc, remainder, gedcom_lines, tree_input, json_result,
                   notParseVars>>

\* gedcom_to_relation_json: parse_gedcom(input).map_err(..)? returns the
\* error
ToJsonErr ==
    /\ parse_pc = "returned"
    /\ ~IsOk(parse_result)
    /\ json_result' = "Err"
    /\ parse_pc' = "done"
    /\ UNCHANGED <<doc_lines, doc, remainder, gedcom_lines, parse_result, tree_input,
                   notParseVars>>

\* gedcom_to_relation_json: let (_, gedcom_lines) = ..; the remainder is
\* dropped and the records go to GedcomTree::from
ToJsonOk ==
    /\ parse_pc = "returned"
    /\ IsOk(parse_result)
    /\ tree_input' = Some(Unwrap(parse_result.out))
    /\ json_result' = "Converting"
    /\ parse_pc' = "done"
    /\ UNCHANGED <<doc_lines, doc, remainder, gedcom_lines, parse_result,
                   notParseVars>>

ParseNext ==
    \/ ParseBom
    \/ ParseLineOk
    \/ ParseLineError
    \/ ParseLineFailure
    \/ ToJsonErr
    \/ ToJsonOk

SpecParse == ParseInit /\ [][ParseNext]_vars

\* ------------------------------------------------------------------------
\* Date and time texts: chrono's parse_from_str, as gedcom.rs and fact.rs
\* call it
\* ------------------------------------------------------------------------

\* Result<T, E>
ROk(v) == [kind |-> "Ok", out |-> Some(v), err |-> ""]

RErr(e) == [kind |-> "Err", out |-> None, err |-> e]

\* a panic on the way: the call does not return
RPanic == [kind |-> "Panic", out |-> None, err |-> "called Option::unwrap() on a None value"]

\* char::to_lowercase on ASCII
LowerChar(c) ==
    IF c \in Range(UPPER) THEN LOWER[CHOOSE i \in 1..Len(UPPER) : UPPER[i] = c]
    ELSE c

\* str::to_lowercase
to_lowercase(text) == [i \in 1..Len(text) |-> LowerChar(text[i])]

\* trim_left before a numeric item and at a space of the format: a line
\* value holds no white space but the delimiter
TrimLeft(text) == Drop(text, PrefixLen(text, {DELIM}, Len(text)))

\* the first k characters of the text as a number, when they are at least
\* min digits
NumberOfLen(text, min, k) ==
    IF k < min THEN PError(text)
    ELSE POk(Drop(text, k), DecimalValue(Take(text, k)))

\* scan::number(s, min, max)
ScanNumber(text, min, max) == NumberOfLen(text, min, PrefixLen(text, DigitChars, max))

\* the number after a '-'
Negated(text, number) ==
    IF IsOk(number) THEN POk(number.rest, 0 - Unwrap(number.out)) ELSE PError(text)

\* a signed numeric item (%Y): a sign lifts the limit on the digits
ScanSigned(text, width) ==
    IF text # <<>> /\ text[1] = "-"
    THEN Negated(text, ScanNumber(Drop(text, 1), 1, Len(text)))
    ELSE IF text # <<>> /\ text[1] = "+"
    THEN ScanNumber(Drop(text, 1), 1, Len(text))
    ELSE ScanNumber(text, 1, width)

\* the month abbreviations of %b, matched in any case
ShortMonths ==
    <<<<"j", "a", "n">>, <<"f", "e", "b">>, <<"m", "a", "r">>, <<"a", "p", "r">>,
      <<"m", "a", "y">>, <<"j", "u", "n">>, <<"j", "u", "l">>, <<"a", "u", "g">>,
      <<"s", "e", "p">>, <<"o", "c", "t">>, <<"n", "o", "v">>, <<"d", "e", "c">>>>

\* the month whose abbreviation is the lower-case text
MonthNamed(text, name) ==
    IF \E m \in 1..12 : ShortMonths[m] = name
    THEN POk(Drop(text, 3), CHOOSE m \in 1..12 : ShortMonths[m] = name)
    ELSE PError(text)

\* scan::short_month0, counted from 1
ScanShortMonth(text) ==
    IF Len(text) >= 3 THEN MonthNamed(text, to_lowercase(Take(text, 3)))
    ELSE PError(text)

IsLeapYear(y) == (y % 4 = 0 /\ y % 100 # 0) \/ y % 400 = 0

DaysInMonth(y, m) ==
    IF m = 2 THEN (IF IsLeapYear(y) THEN 29 ELSE 28)
    ELSE IF m \in {4, 6, 9, 11} THEN 30
    ELSE 31

\* NaiveDate::from_ymd_opt
ValidDate(y, m, d) == d >= 1 /\ d <= DaysInMonth(y, m)

\* "%-d %b %Y", item by item: each step is handed the result of the item
\* before it; the result is the remaining text and <<year, month, day>>
DateAfterYear(day, month, year) ==
    IF ~IsOk(year) THEN PError(year.rest)
    ELSE POk(year.rest, <<Unwrap(year.out), month, day>>)

DateAfterMonth(day, month) ==
    IF ~IsOk(month) THEN PError(month.rest)
    ELSE DateAfterYear(day, Unwrap(month.out), ScanSigned(TrimLeft(TrimLeft(month.rest)), 4))

DateAfterDay(day) ==
    IF ~IsOk(day) THEN PError(day.rest)
    ELSE DateAfterMonth(Unwrap(day.out), ScanShortMonth(TrimLeft(day.rest)))

ScanDate(text) == DateAfterDay(ScanNumber(TrimLeft(text), 1, 2))

\* NaiveDate::parse_from_str(text, DATE_DETAIL_FORMAT): None is Err
DateOf(scanned) ==
    IF /\ IsOk(scanned)
       /\ scanned.rest = <<>>
       /\ ValidDate(Unwrap(scanned.out)[1], Unwrap(scanned.out)[2], Unwrap(scanned.out)[3])
    THEN Some([year |-> Unwrap(scanned.out)[1], month |-> Unwrap(scanned.out)[2],
               day |-> Unwrap(scanned.out)[3]])
    ELSE None

ParseDate(text) == DateOf(ScanDate(text))

\* the literal ':' of the format
ScanColon(text) ==
    IF text # <<>> /\ text[1] = ":" THEN POk(Drop(text, 1), ":") ELSE PError(text)

\* " %H:%M:%S", item by item; the result is <<hour, minute, second>>
TimeAfterSecond(hour, minute, second) ==
    IF ~IsOk(second) THEN PError(second.rest)
    ELSE POk(second.rest, <<hour, minute, Unwrap(second.out)>>)

TimeAfterColon2(hour, minute, colon) ==
    IF ~IsOk(colon) THEN PError(colon.rest)
    ELSE TimeAfterSecond(hour, minute, ScanNumber(TrimLeft(colon.rest), 1, 2))

TimeAfterMinute(hour, minute) ==
    IF ~IsOk(minute) THEN PError(minute.rest)
    ELSE TimeAfterColon2(hour, Unwrap(minute.out), ScanColon(minute.rest))

TimeAfterColon1(hour, colon) ==
    IF ~IsOk(colon) THEN PError(colon.rest)
    ELSE TimeAfterMinute(hour, ScanNumber(TrimLeft(colon.rest), 1, 2))

TimeAfterHour(hour) ==
    IF ~IsOk(hour) THEN PError(hour.rest)
    ELSE TimeAfterColon1(Unwrap(hour.out), ScanColon(hour.rest))

ScanTime(text) == TimeAfterHour(ScanNumber(TrimLeft(TrimLeft(text)), 1, 2))

\* NaiveTime::from_hms_nano_opt: second 60 is a leap second
ValidTime(h, m, s) == h <= 23 /\ m <= 59 /\ s <= 60

\* the NaiveDateTime of a scanned date and a scanned time
DateTimeOf(date, time) ==
    IF /\ IsOk(date)
       /\ IsOk(time)
       /\ time.rest = <<>>
       /\ ValidDate(Unwrap(date.out)[1], Unwrap(date.out)[2], Unwrap(date.out)[3])
       /\ ValidTime(Unwrap(time.out)[1], Unwrap(time.out)[2], Unwrap(time.out)[3])
    THEN Some([year |-> Unwrap(date.out)[1], month |-> Unwrap(date.out)[2],
               day |-> Unwrap(date.out)[3], hour |-> Unwrap(time.out)[1],
               minute |-> Unwrap(time.out)[2],
               second |-> Min(Unwrap(time.out)[3], 59),
               leap |-> Unwrap(time.out)[3] = 60])
    ELSE None

TimeOfDate(date) == IF IsOk(date) THEN ScanTime(date.rest) ELSE date

DateTimeAfterDate(date) == DateTimeOf(date, TimeOfDate(date))

\* NaiveDateTime::parse_from_str(text, "%-d %b %Y %H:%M:%S"): None is Err
ParseDateTime(text) == DateTimeAfterDate(ScanDate(text))

\* ------------------------------------------------------------------------
\* Relational mapper: models/gedcom.rs and models/relation
\* ------------------------------------------------------------------------

\* GedcomTreeNode
TreeNode(level, xref_id, tag, line_value, node_children) ==
    [children |-> node_children, level |-> level, line_value |-> line_value,
     tag |-> tag, xref_id |-> xref_id]

\* Option::ok_or, Result::map_err
OkOr(o, e) == IF IsSome(o) THEN ROk(Unwrap(o)) ELSE RErr(e)

\* format!("{} {}", date, time) and the parse of it
ChangeDateTime(date, time) ==
    OkOr(ParseDateTime(date \o <<" ">> \o time), "Gedcom Change has invalid date_time")

ChangeTime(date_node, time_node) ==
    IF ~IsSome(time_node.line_value) THEN RErr("Gedcom Time has no value")
    ELSE ChangeDateTime(Unwrap(date_node.line_value), Unwrap(time_node.line_value))

\* the date node as it would be read if the time child were looked for
\* before the value
ChangeDate_MutTimeFirst(date_node) ==
    IF date_node.children = <<>> THEN RErr("Gedcom Date has no time")
    ELSE IF ~IsSome(date_node.line_value) THEN RErr("Gedcom Date has no value")
    ELSE ChangeTime(date_node, date_node.children[1])

ChangeDate(date_node) ==
    IF ~IsSome(date_node.line_value) THEN RErr("Gedcom Date has no value")
    ELSE IF date_node.children = <<>> THEN RErr("Gedcom Date has no time")
    ELSE ChangeTime(date_node, date_node.children[1])

change_node_to_date_time(node) ==
    IF node.children = <<>> THEN RErr("Gedcom Change has no date")
    ELSE ChangeDate(node.children[1])

\* XREF_ID_DIGITS, @.+([0-9]+)@: the places where a match can end. The
\* match starts at the first '@'; '.+' takes at least one character and,
\* being greedy, all digits but the last one before the closing '@'
XrefIdMatchEnds(xref_id) ==
    {e \in 1..Len(xref_id) :
        /\ xref_id[e] = AT
        /\ e >= 4
        /\ xref_id[e - 1] \in DigitChars
        /\ \E s \in 1..(e - 3) : xref_id[s] = AT}

\* xref_id_to_numeric_id: the first capture group of XREF_ID_DIGITS as a
\* number, None when the label does not match
xref_id_to_numeric_id(xref_id) ==
    IF XrefIdMatchEnds(xref_id) = {} THEN None
    ELSE Some(DigitValue(xref_id[(CHOOSE e \in XrefIdMatchEnds(xref_id) :
                                     \A f \in XrefIdMatchEnds(xref_id) : f <= e) - 1]))

\* Option::unwrap_or_default of a number
UnwrapOrDefault(o) == IF IsSome(o) THEN Unwrap(o) ELSE 0

FAMILY_ID_SEED == 100

CHILD_ID_SEED == 1000

\* FactTypeId
FactTypeIdBirth == 405

FactTypeIdName == 100

\* Gender
GenderMale == 1

GenderFemale == 2

GenderOther == 3

\* impl From<&str> for Gender as it would be without to_lowercase
GenderFrom_MutCaseSensitive(value) ==
    IF value = <<"m">> THEN GenderMale
    ELSE IF value = <<"f">> THEN GenderFemale
    ELSE GenderOther

\* impl From<&str> for Gender
GenderFrom(value) ==
    IF to_lowercase(value) = <<"m">> THEN GenderMale
    ELSE IF to_lowercase(value) = <<"f">> THEN GenderFemale
    ELSE GenderOther

\* BirthBuilder::new()
BirthBuilderNew == [date_detail |-> None, place |-> None, preferred |-> None]

\* BirthBuilder::with_date_detail_from_str, handed the parsed date
WithDateDetail(builder, date_detail) ==
    IF IsSome(date_detail) THEN [builder EXCEPT !.date_detail = date_detail] ELSE builder

\* one iteration of the loop of Birth::from
BirthChild(child, builder) ==
    IF child.tag.kind = "Custom"
    THEN IF /\ child.tag.text = <<"_", "P", "R", "I", "M">>
            /\ (IF IsSome(child.line_value) THEN Unwrap(child.line_value) ELSE <<"N">>) = <<"Y">>
         THEN [builder EXCEPT !.preferred = Some(TRUE)]
         ELSE builder
    ELSE IF child.tag = Tag("Date")
    THEN IF IsSome(child.line_value)
         THEN WithDateDetail(builder, ParseDate(Unwrap(child.line_value)))
         ELSE builder
    ELSE IF child.tag = Tag("Place")
    THEN IF IsSome(child.line_value)
         THEN [builder EXCEPT !.place = Some([place_name |-> Unwrap(child.line_value)])]
         ELSE builder
    ELSE builder

RECURSIVE BirthScan(_, _, _)

\* the loop of Birth::from, from the i-th child on
BirthScan(cs, i, builder) ==
    IF i > Len(cs) THEN builder
    ELSE BirthScan(cs, i + 1, BirthChild(cs[i], builder))

\* BirthBuilder::build: self.preferred.unwrap() panics on None
BirthBuilderBuild(builder) ==
    IF IsSome(builder.preferred)
    THEN ROk([date_detail |-> builder.date_detail, fact_type_id |-> FactTypeIdBirth,
              place |-> builder.place, preferred |-> Unwrap(builder.preferred)])
    ELSE RPanic

\* impl From<&GedcomTreeNode> for Birth
BirthFrom(node) == BirthBuilderBuild(BirthScan(node.children, 1, BirthBuilderNew))

\* NameBuilder::new()
NameBuilderNew == [given_names |-> None, surnames |-> None]

\* one iteration of the loop of Name::from
NameChild(child, builder) ==
    IF child.tag = Tag("GivenName") /\ IsSome(child.line_value)
    THEN [builder EXCEPT !.given_names = child.line_value]
    ELSE IF child.tag = Tag("Surname") /\ IsSome(child.line_value)
    THEN [builder EXCEPT !.surnames = child.line_value]
    ELSE builder

RECURSIVE NameScan(_, _, _)

NameScan(cs, i, builder) ==
    IF i > Len(cs) THEN builder
    ELSE NameScan(cs, i + 1, NameChild(cs[i], builder))

\* NameBuilder::build
NameBuilderBuild(builder) ==
    [fact_type_id |-> FactTypeIdName, given_names |-> builder.given_names,
     surnames |-> builder.surnames]

\* impl From<&GedcomTreeNode> for Name
NameFrom(node) == NameBuilderBuild(NameScan(node.children, 1, NameBuilderNew))

\* PersonBuilder::new()
PersonBuilderNew ==
    [date_created |-> None, facts |-> None, gender |-> None, id |-> None,
     is_living |-> None, names |-> None]

\* PersonBuilder::with_birth, with_name: push, or start the list
Pushed(list, v) == IF IsSome(list) THEN Some(Append(Unwrap(list), v)) ELSE Some(<<v>>)

\* the Birth arm of Person::try_from
PersonBirth(birth, builder) ==
    IF birth.kind = "Ok"
    THEN ROk([builder EXCEPT !.facts = Pushed(builder.facts, Unwrap(birth.out))])
    ELSE birth

\* the Change arm: `?` returns the error of change_node_to_date_time
PersonChange(date_created, builder) ==
    IF date_created.kind = "Ok"
    THEN ROk([builder EXCEPT !.date_created = date_created.out])
    ELSE date_created

\* one iteration of the loop of Person::try_from
PersonChild(child, builder) ==
    IF child.tag = Tag("Birth") THEN PersonBirth(BirthFrom(child), builder)
    ELSE IF child.tag = Tag("Change")
    THEN PersonChange(change_node_to_date_time(child), builder)
    ELSE IF child.tag = Tag("Sex")
    THEN ROk([builder EXCEPT !.gender =
                 Some(GenderFrom(IF IsSome(child.line_value)
                                 THEN Unwrap(child.line_value) ELSE <<>>))])
    ELSE IF child.tag = Tag("Name")
    THEN ROk([builder EXCEPT !.names = Pushed(builder.names, NameFrom(child))])
    ELSE ROk(builder)

\* PersonBuilder::build
PersonBuilderBuild(builder) ==
    IF ~IsSome(builder.date_created) THEN RErr("Person must have a date_created")
    ELSE IF ~IsSome(builder.gender) THEN RErr("Person must have a gender")
    ELSE IF ~IsSome(builder.id) THEN RErr("Person must have an id")
    ELSE ROk([date_created |-> Unwrap(builder.date_created),
              facts |-> builder.facts,
              gender |-> Unwrap(builder.gender),
              id |-> Unwrap(builder.id),
              is_living |-> Some(TRUE),
              names |-> IF IsSome(builder.names) THEN Unwrap(builder.names) ELSE <<>>])

RECURSIVE PersonScan(_, _, _)

\* the loop of Person::try_from from the i-th child on, handed the outcome
\* of the child before it, and the build at its end
PersonScan(cs, i, step) ==
    IF step.kind # "Ok" THEN step
    ELSE IF i > Len(cs) THEN PersonBuilderBuild(Unwrap(step.out))
    ELSE PersonScan(cs, i + 1, PersonChild(cs[i], Unwrap(step.out)))

\* impl TryFrom<&GedcomTreeNode> for Person
PersonTryFrom(node) ==
    PersonScan(node.children, 1,
               ROk(IF IsSome(node.xref_id)
                   THEN [PersonBuilderNew EXCEPT
                            !.id = Some(UnwrapOrDefault(xref_id_to_numeric_id(Unwrap(node.xref_id))))]
                   ELSE PersonBuilderNew))

\* FamilyBuilder::new()
FamilyBuilderNew == [date_created |-> None, father_id |-> None, id |-> None, mother_id |-> None]

\* FamilyBuilder::build as it would be if it did not ask for a mother_id
FamilyBuilderBuild_MutNoMother(builder) ==
    IF ~IsSome(builder.date_created) THEN RErr("Family must have a date_created specified")
    ELSE IF ~IsSome(builder.father_id) THEN RErr("Family must have a father_id specified")
    ELSE IF ~IsSome(builder.id) THEN RErr("Family must have an id specified")
    ELSE ROk([date_created |-> Unwrap(builder.date_created),
              father_id |-> Unwrap(builder.father_id),
              id |-> Unwrap(builder.id),
              mother_id |-> UnwrapOrDefault(builder.mother_id)])

\* FamilyBuilder::build
FamilyBuilderBuild(builder) ==
    IF ~IsSome(builder.date_created) THEN RErr("Family must have a date_created specified")
    ELSE IF ~IsSome(builder.father_id) THEN RErr("Family must have a father_id specified")
    ELSE IF ~IsSome(builder.id) THEN RErr("Family must have an id specified")
    ELSE IF ~IsSome(builder.mother_id) THEN RErr("Family must have a mother_id specified")
    ELSE ROk([date_created |-> Unwrap(builder.date_created),
              father_id |-> Unwrap(builder.father_id),
              id |-> Unwrap(builder.id),
              mother_id |-> Unwrap(builder.mother_id)])

\* Child::new as it would be with its first two arguments taken for each
\* other
ChildNew_MutSwapped(child_id, id, family_id) ==
    [child_id |-> id, family_id |-> family_id, id |-> child_id,
     relationship_to_father |-> 1, relationship_to_mother |-> 1]

\* Child::new(child_id, id, family_id), the rest from Child::default()
ChildNew(child_id, id, family_id) ==
    [child_id |-> child_id, family_id |-> family_id, id |-> id,
     relationship_to_father |-> 1, relationship_to_mother |-> 1]

\* the lookup as it would be if a pointer were resolved from its own text,
\* whether or not the label is a key of the map
Resolved_MutFromLabel(child, map) ==
    IF IsSome(child.line_value)
    THEN Some(UnwrapOrDefault(xref_id_to_numeric_id(Unwrap(child.line_value))))
    ELSE None

\* persons_id_map.get(child.line_value()): Some(id) when the child has a
\* value and the map has it as a key
Resolved(child, map) ==
    IF IsSome(child.line_value) /\ Unwrap(child.line_value) \in DOMAIN map
    THEN Some(map[Unwrap(child.line_value)])
    ELSE None

\* the Change arm of the Family loop: an error is passed over
FamilyChange(date_created, st) ==
    IF date_created.kind = "Ok"
    THEN [st EXCEPT !.builder.date_created = date_created.out]
    ELSE st

\* the Child arm, handed what the pointer resolves to
FamilyChildRow(person_id, st, family_id) ==
    IF IsSome(person_id)
    THEN [st EXCEPT !.childs =
             Append(st.childs,
                    ChildNew(Unwrap(person_id), CHILD_ID_SEED + Unwrap(person_id),
                             family_id))]
    ELSE st

\* the Husband arm
FamilyFather(person_id, st) ==
    IF IsSome(person_id) THEN [st EXCEPT !.builder.father_id = person_id] ELSE st

\* the Wife arm
FamilyMother(person_id, st) ==
    IF IsSome(person_id) THEN [st EXCEPT !.builder.mother_id = person_id] ELSE st

\* one iteration of the loop over the children of a Family root; st is the
\* builder and the rows pushed to childs
FamilyChild(child, st, map, family_id) ==
    IF child.tag = Tag("Change") THEN FamilyChange(change_node_to_date_time(child), st)
    ELSE IF child.tag = Tag("Child") THEN FamilyChildRow(Resolved(child, map), st, family_id)
    ELSE IF child.tag = Tag("Husband") THEN FamilyFather(Resolved(child, map), st)
    ELSE IF child.tag = Tag("Wife") THEN FamilyMother(Resolved(child, map), st)
    ELSE st

RECURSIVE FamilyScan(_, _, _, _, _)

\* the loop over the children of a Family root, from the i-th child on
FamilyScan(cs, i, st, map, family_id) ==
    IF i > Len(cs) THEN st
    ELSE FamilyScan(cs, i + 1, FamilyChild(cs[i], st, map, family_id), map, family_id)

\* FAMILY_ID_SEED + xref_id_to_numeric_id(xref_id).unwrap_or_default(): the
\* sum stays far below 2^32, the number being one digit
FamilyId(xref_id) == FAMILY_ID_SEED + UnwrapOrDefault(xref_id_to_numeric_id(xref_id))

\* the Family arm for a root with a label: the builder after the loop and
\* the rows pushed to childs
FamilyArm(node, map) ==
    FamilyScan(node.children, 1,
               [builder |-> [FamilyBuilderNew EXCEPT !.id = Some(FamilyId(Unwrap(node.xref_id)))],
                childs |-> <<>>],
               map, FamilyId(Unwrap(node.xref_id)))

\* HashMap::insert
Inserted(map, key, value) ==
    [k \in DOMAIN map \cup {key} |-> IF k = key THEN value ELSE map[k]]

\* HashMap::new()
EmptyMap == [k \in {} |-> 0]

\* The forests handed to ApiResponse::from: root records as the tree builder
\* makes them of a document's lines

LabelI1 == <<"@", "I", "1", "@">>

LabelI2 == <<"@", "I", "2", "@">>

LabelF1 == <<"@", "F", "1", "@">>

LabelF2 == <<"@", "F", "2", "@">>

LabelS1 == <<"@", "S", "1", "@">>

\* a label without a digit
LabelX == <<"@", "X", "@">>

DateText == <<"1", "5", " ", "A", "P", "R", " ", "2", "0", "2", "0">>

TimeText == <<"1", "6", ":", "1", "9", ":", "2", "1">>

BirthDateText == <<"1", " ", "J", "a", "n", " ", "1", "9", "9", "0">>

InvalidTimeText == <<"I", "N", "V", "A", "L", "I", "D">>

Leaf(level, tag, line_value) == TreeNode(level, None, tag, line_value, <<>>)

\* 1 CHAN / 2 DATE date / 3 TIME time
ChangeNode(date, time) ==
    TreeNode(1, None, Tag("Change"), None,
             <<TreeNode(2, None, Tag("Date"), Some(date),
                        <<Leaf(3, Tag("Time"), Some(time))>>)>>)

ChangeValid == ChangeNode(DateText, TimeText)

ChangeInvalid == ChangeNode(DateText, InvalidTimeText)

SexNode(value) == Leaf(1, Tag("Sex"), value)

\* 1 NAME / 2 GIVN Ann / 2 SURN Lee
NameNode ==
    TreeNode(1, None, Tag("Name"), None,
             <<Leaf(2, Tag("GivenName"), Some(<<"A", "n", "n">>)),
               Leaf(2, Tag("Surname"), Some(<<"L", "e", "e">>))>>)

\* 1 BIRT / 2 DATE .. / 2 PLAC .. and what comes with it
BirthNode(more) ==
    TreeNode(1, None, Tag("Birth"), None,
             <<Leaf(2, Tag("Date"), Some(BirthDateText)),
               Leaf(2, Tag("Place"), Some(<<"D", "u", "n", "d", "e", "e">>))>> \o more)

PrimNode(value) == Leaf(2, Custom(<<"_", "P", "R", "I", "M">>), Some(value))

BirthPreferred == BirthNode(<<PrimNode(<<"Y">>)>>)

BirthNotPreferred == BirthNode(<<PrimNode(<<"N">>)>>)

BirthNoMarker == BirthNode(<<>>)

PointerNode(tag, label) == Leaf(1, tag, Some(label))

Individual(xref_id, node_children) ==
    TreeNode(0, xref_id, Tag("Individual"), None, node_children)

Family(xref_id, node_children) ==
    TreeNode(0, xref_id, Tag("Family"), None, node_children)

RootCatalog ==
    {Leaf(0, Tag("Header"), None),
     TreeNode(0, Some(LabelS1), Tag("Source"), None,
              <<Leaf(1, Tag("Title"), Some(<<"A", "n", "n">>)), ChangeValid>>),
     Individual(Some(LabelI1), <<SexNode(Some(<<"M">>)), ChangeValid>>),
     Individual(Some(LabelI2),
                <<NameNode, SexNode(Some(<<"f">>)), BirthPreferred, ChangeValid>>),
     Individual(Some(LabelI1), <<NameNode>>),
     Individual(Some(LabelI2), <<ChangeValid>>),
     Individual(Some(LabelI1), <<SexNode(Some(<<"x">>)), ChangeInvalid, ChangeValid>>),
     Individual(Some(LabelI2), <<SexNode(Some(<<"M">>)), ChangeValid, BirthNotPreferred>>),
     Individual(Some(LabelI1), <<BirthNoMarker, SexNode(Some(<<"M">>)), ChangeValid>>),
     Individual(None, <<SexNode(Some(<<"M">>)), ChangeValid>>),
     Individual(Some(LabelX), <<SexNode(None), ChangeValid>>),
     Individual(Some(LabelI2), <<ChangeValid, SexNode(Some(<<"u">>))>>),
     Family(Some(LabelF1),
            <<PointerNode(Tag("Husband"), LabelI1), PointerNode(Tag("Wife"), LabelI2),
              PointerNode(Tag("Child"), LabelI1), PointerNode(Tag("Child"), LabelI2),
              ChangeValid>>),
     Family(Some(LabelF2),
            <<PointerNode(Tag("Husband"), LabelI1), PointerNode(Tag("Wife"), LabelI2),
              PointerNode(Tag("Child"), LabelI1), PointerNode(Tag("Child"), LabelI1)>>),
     Family(Some(LabelF1),
            <<ChangeInvalid, ChangeValid, PointerNode(Tag("Husband"), LabelI1),
              PointerNode(Tag("Wife"), LabelI1)>>),
     Family(Some(LabelF2),
            <<PointerNode(Tag("Husband"), LabelI1), ChangeValid,
              PointerNode(Tag("Child"), LabelI2)>>),
     Family(None,
            <<PointerNode(Tag("Husband"), LabelI1), PointerNode(Tag("Wife"), LabelI2),
              PointerNode(Tag("Child"), LabelI1), ChangeValid>>)}

\* Person::try_from of each root of the catalog
PersonTryFromRoot == [n \in RootCatalog |-> PersonTryFrom(n)]

MapInit ==
    /\ tree \in SeqsOf(RootCatalog, 1, MaxRoots)
    /\ node_idx = 1
    /\ childs = <<>>
    /\ familys = <<>>
    /\ persons = <<>>
    /\ persons_id_map = EmptyMap
    /\ api_response = None
    /\ map_pc = "walk"
    /\ NotMapIdle

\* the root the loop of ApiResponse::from is at
AtRoot(kind) ==
    /\ map_pc = "walk"
    /\ node_idx <= Len(tree)
    /\ tree[node_idx].tag = Tag(kind)

\* the Individual arm as it would be if the Person were put at the front
MapPerson_MutPrepend ==
    /\ AtRoot("Individual")
    /\ IsSome(tree[node_idx].xref_id)
    /\ LET person == PersonTryFromRoot[tree[node_idx]]
       IN  /\ person.kind = "Ok"
           /\ persons_id_map' = Inserted(persons_id_map, Unwrap(tree[node_idx].xref_id),
                                         Unwrap(person.out).id)
           /\ persons' = <<Unwrap(person.out)>> \o persons
    /\ node_idx' = node_idx + 1
    /\ UNCHANGED <<tree, childs, familys, api_response, map_pc, notMapVars>>

\* the Individual arm as it would be if the map recorded the position of the
\* Person in persons instead of its id
MapPerson_MutSequentialId ==
    /\ AtRoot("Individual")
    /\ IsSome(tree[node_idx].xref_id)
    /\ LET person == PersonTryFromRoot[tree[node_idx]]
       IN  /\ person.kind = "Ok"
           /\ persons_id_map' = Inserted(persons_id_map, Unwrap(tree[node_idx].xref_id),
                                         Len(persons) + 1)
           /\ persons' = Append(persons, Unwrap(person.out))
    /\ node_idx' = node_idx + 1
    /\ UNCHANGED <<tree, childs, familys, api_response, map_pc, notMapVars>>

\* Individual arm: the root has a label and Person::try_from returns Ok
MapPerson ==
    /\ AtRoot("Individual")
    /\ IsSome(tree[node_idx].xref_id)
    /\ LET person == PersonTryFromRoot[tree[node_idx]]
       IN  /\ person.kind = "Ok"
           /\ persons_id_map' = Inserted(persons_id_map, Unwrap(tree[node_idx].xref_id),
                                         Unwrap(person.out).id)
           /\ persons' = Append(persons, Unwrap(person.out))
    /\ node_idx' = node_idx + 1
    /\ UNCHANGED <<tree, childs, familys, api_response, map_pc, notMapVars>>

\* Individual arm: the root has no label, or Person::try_from returns Err
MapPersonDropped ==
    /\ AtRoot("Individual")
    /\ \/ ~IsSome(tree[node_idx].xref_id)
       \/ PersonTryFromRoot[tree[node_idx]].kind = "Err"
    /\ node_idx' = node_idx + 1
    /\ UNCHANGED <<tree, childs, familys, persons, persons_id_map, api_response, map_pc,
                   notMapVars>>

\* Individual arm: Person::try_from panics, and so do ApiResponse::from and
\* gedcom_to_relation_json
MapPersonPanic ==
    /\ AtRoot("Individual")
    /\ IsSome(tree[node_idx].xref_id)
    /\ PersonTryFromRoot[tree[node_idx]].kind = "Panic"
    /\ map_pc' = "panicked"
    /\ UNCHANGED <<tree, node_idx, childs, familys, persons, persons_id_map, api_response,
                   notMapVars>>

\* the Family arm as it would be if a root without a label were read as a
\* root with an empty label
MapFamily_MutUnlabelled ==
    /\ AtRoot("Family")
    /\ LET node == IF IsSome(tree[node_idx].xref_id) THEN tree[node_idx]
                   ELSE [tree[node_idx] EXCEPT !.xref_id = Some(<<>>)]
           arm == FamilyArm(node, persons_id_map)
           family == FamilyBuilderBuild(arm.builder)
       IN  /\ childs' = childs \o arm.childs
           /\ familys' =
                 IF family.kind = "Ok" THEN Append(familys, Unwrap(family.out))
                 ELSE familys
    /\ node_idx' = node_idx + 1
    /\ UNCHANGED <<tree, persons, persons_id_map, api_response, map_pc, notMapVars>>

\* the Family arm as it would be if the rows of a record came out of an
\* unordered structure: in the order of the CHIL children or in the opposite
\* order
MapFamily_MutAnyOrder ==
    /\ AtRoot("Family")
    /\ IF IsSome(tree[node_idx].xref_id)
       THEN LET arm == FamilyArm(tree[node_idx], persons_id_map)
                family == FamilyBuilderBuild(arm.builder)
            IN  /\ childs' \in {childs \o arm.childs, childs \o Reverse(arm.childs)}
                /\ familys' =
                      IF family.kind = "Ok" THEN Append(familys, Unwrap(family.out))
                      ELSE familys
       ELSE UNCHANGED <<childs, familys>>
    /\ node_idx' = node_idx + 1
    /\ UNCHANGED <<tree, persons, persons_id_map, api_response, map_pc, notMapVars>>

\* the Family arm as it would be if the rows of a Family that is not built
\* were taken back
MapFamily_MutRetract ==
    /\ AtRoot("Family")
    /\ IF IsSome(tree[node_idx].xref_id)
       THEN LET arm == FamilyArm(tree[node_idx], persons_id_map)
                family == FamilyBuilderBuild(arm.builder)
            IN  /\ childs' = IF family.kind = "Ok" THEN childs \o arm.childs ELSE childs
                /\ familys' =
                      IF family.kind = "Ok" THEN Append(familys, Unwrap(family.out))
                      ELSE familys
       ELSE UNCHANGED <<childs, familys>>
    /\ node_idx' = node_idx + 1
    /\ UNCHANGED <<tree, persons, persons_id_map, api_response, map_pc, notMapVars>>

\* Family arm
MapFamily ==
    /\ AtRoot("Family")
    /\ IF IsSome(tree[node_idx].xref_id)
       THEN LET arm == FamilyArm(tree[node_idx], persons_id_map)
                family == FamilyBuilderBuild(arm.builder)
            IN  /\ childs' = childs \o arm.childs
                /\ familys' =
                      IF family.kind = "Ok" THEN Append(familys, Unwrap(family.out))
                      ELSE familys
       ELSE UNCHANGED <<childs, familys>>
    /\ node_idx' = node_idx + 1
    /\ UNCHANGED <<tree, persons, persons_id_map, api_response, map_pc, notMapVars>>

\* the arm of the other roots as it would be if it started the label map
\* afresh
MapOther_MutClearsMap ==
    /\ map_pc = "walk"
    /\ node_idx <= Len(tree)
    /\ tree[node_idx].tag \notin {Tag("Individual"), Tag("Family")}
    /\ node_idx' = node_idx + 1
    /\ persons_id_map' = EmptyMap
    /\ UNCHANGED <<tree, childs, familys, persons, api_response, map_pc, notMapVars>>

\* every other root: `_ => {}`
MapOther ==
    /\ map_pc = "walk"
    /\ node_idx <= Len(tree)
    /\ tree[node_idx].tag \notin {Tag("Individual"), Tag("Family")}
    /\ node_idx' = node_idx + 1
    /\ UNCHANGED <<tree, childs, familys, persons, persons_id_map, api_response, map_pc,
                   notMapVars>>

\* the end of the loop as it would be if the Source roots were collected
\* into master_sources
MapFinish_MutKeepsSources ==
    /\ map_pc = "walk"
    /\ node_idx > Len(tree)
    /\ api_response' =
          Some([childs |-> childs, fact_types |-> <<>>, familys |-> familys,
                master_sources |-> SelectSeq(tree, LAMBDA n : n.tag = Tag("Source")),
                medias |-> <<>>, persons |-> persons, source_repos |-> <<>>])
    /\ map_pc' = "done"
    /\ UNCHANGED <<tree, node_idx, childs, familys, persons, persons_id_map, notMapVars>>

\* the end of the loop: Self { childs, familys, persons, ..Default::default() }
MapFinish ==
    /\ map_pc = "walk"
    /\ node_idx > Len(tree)
    /\ api_response' =
          Some([childs |-> childs, fact_types |-> <<>>, familys |-> familys,
                master_sources |-> <<>>, medias |-> <<>>, persons |-> persons,
                source_repos |-> <<>>])
    /\ map_pc' = "done"
    /\ UNCHANGED <<tree, node_idx, childs, familys, persons, persons_id_map, notMapVars>>

MapNext ==
    \/ MapPerson
    \/ MapPersonDropped
    \/ MapPersonPanic
    \/ MapFamily
    \/ MapOther
    \/ MapFinish

SpecMap == MapInit /\ [][MapNext]_vars

\* ------------------------------------------------------------------------
\* Claims about the tree builder (SpecTree)
\* ------------------------------------------------------------------------

\* the input starts with a level-0 record and never jumps by more than one
WellNested(ls) == ls # <<>> /\ ls[1].level = 0 /\ NoLevelJump(ls)

\* the records that follow record i up to the next record that is not deeper
Run(ls, i) ==
    LET later == {j \in (i + 1)..Len(ls) : ls[j].level <= ls[i].level}
        end == IF later = {} THEN Len(ls)
               ELSE (CHOOSE j \in later : \A k \in later : j <= k) - 1
    IN  SubSeq(ls, i, end)

\* C3 as stated: for every input sequence, in any order of levels, every
\* child of every node (roots included) has level parent.level + 1.
C3_Original_EveryChildOneDeeper ==
    TreeDone => \A n \in NodesOf(nodes) : ChildrenOneDeeper(n)

\* C3 amended: every child of a node of level >= 1 has level parent.level + 1
\* for every input sequence; the children of a root have level 1 when no
\* record of the input is more than one level deeper than the record before.
C3_ChildOneDeeper ==
    TreeDone =>
        \A n \in NodesOf(nodes) :
            (n.level # 0 \/ NoLevelJump(input)) => ChildrenOneDeeper(n)

\* a finished forest, built from an input without level jump, in which a
\* root has a child that has children of its own
C3_Witness ==
    /\ TreeDone
    /\ NoLevelJump(input)
    /\ \E r \in NodesOf(nodes) :
          /\ r.level = 0
          /\ \E i \in 1..Len(r.children) : Len(r.children[i].children) >= 2

\* C4: for a well nested input, the pre-order flattening of the forest is
\* the input, and the subtrees are exactly the runs of records that follow a
\* record up to the next record that is not deeper.
C4_PreOrderIsInput ==
    (TreeDone /\ WellNested(input)) =>
        /\ FlattenAll(nodes) = input
        /\ {FlattenNode(n) : n \in NodesOf(nodes)}
             = {Run(input, i) : i \in 1..Len(input)}

\* a finished forest of a well nested input with two roots, the first with
\* two children of which the first has a child
C4_Witness ==
    /\ TreeDone
    /\ WellNested(input)
    /\ Len(nodes) >= 2
    /\ Len(nodes[1].children) >= 2
    /\ nodes[1].children[1].children # <<>>

\* C5: for every input, the roots are the level-0 records, one root per
\* record, in document order.
C5_RootsAreLevelZeroRecords ==
    TreeDone =>
        [i \in 1..Len(nodes) |-> LineOf(nodes[i])]
            = SelectSeq(input, LAMBDA l : l.level = 0)

\* a finished forest with several roots, built from an input whose first
\* record is not a level-0 record
C5_Witness ==
    /\ TreeDone
    /\ Len(nodes) >= 2
    /\ input[1].level # 0

\* the position of the first level-0 record of ls, Len(ls) + 1 if it has none
FirstRoot(ls) ==
    LET zeros == {i \in 1..Len(ls) : ls[i].level = 0}
    IN  IF zeros = {} THEN Len(ls) + 1 ELSE CHOOSE i \in zeros : \A j \in zeros : i <= j

\* s holds each member of t once and nothing else
HoldsEachOnce(s, t) ==
    /\ Len(s) = Len(t)
    /\ {s[i] : i \in 1..Len(s)} = {t[i] : i \in 1..Len(t)}

\* C26: GedcomTree::from conserves records from the first level-0 record
\* onwards: every record of the input at or after the first level-0 record
\* is exactly one node of the forest, none twice and none lost, and the
\* records before the first level-0 record are left in the pending buffer
\* and are in no tree. (The records of an input are pairwise different.)
C26_RecordsConserved ==
    TreeDone =>
        /\ HoldsEachOnce(FlattenAll(nodes),
                         SubSeq(input, FirstRoot(input), Len(input)))
        /\ HoldsEachOnce(FlattenAll(children),
                         SubSeq(input, 1, FirstRoot(input) - 1))

\* a finished forest of an input that starts with two records deeper than
\* level 0 and goes on with two level-0 records of which the first has a
\* child: the two first records are in the buffer, the others in the forest
C26_Witness ==
    /\ TreeDone
    /\ FirstRoot(input) = 3
    /\ Len(input) = 5
    /\ Len(nodes) = 2
    /\ Len(nodes[1].children) = 1
    /\ Len(FlattenAll(children)) = 2

RECURSIVE Popped(_, _, _)

\* the stack of open ancestors (positions in ls, the last is the top) after
\* popping every ancestor whose level is >= the level
Popped(ls, stack, level) ==
    IF stack # <<>> /\ ls[stack[Len(stack)]].level >= level
    THEN Popped(ls, SubSeq(stack, 1, Len(stack) - 1), level)
    ELSE stack

RECURSIVE ForwardParents(_, _, _, _)

\* the forward pass from record i on: parents[j] is the position of the
\* record that record j was attached to, 0 for a root
ForwardParents(ls, i, stack, parents) ==
    IF i > Len(ls) THEN parents
    ELSE LET open == Popped(ls, stack, ls[i].level)
         IN  ForwardParents(ls, i + 1, Append(open, i),
                            Append(parents, IF open = <<>> THEN 0 ELSE open[Len(open)]))

\* the positions attached to p, in the order in which they were attached
AttachedTo(parents, p) ==
    SelectSeq([j \in 1..Len(parents) |-> j], LAMBDA j : parents[j] = p)

RECURSIVE ForwardNode(_, _, _)

\* the node of record i with the nodes attached to it
ForwardNode(ls, parents, i) ==
    LET cs == AttachedTo(parents, i)
    IN  [children |-> [k \in 1..Len(cs) |-> ForwardNode(ls, parents, cs[k])],
         level |-> ls[i].level, line_value |-> ls[i].line_value,
         tag |-> ls[i].tag, xref_id |-> ls[i].xref_id]

\* the forest of the forward explicit-stack algorithm
ForwardForest(ls) ==
    LET parents == ForwardParents(ls, 1, <<>>, <<>>)
        roots == AttachedTo(parents, 0)
    IN  [k \in 1..Len(roots) |-> ForwardNode(ls, parents, roots[k])]

\* C21 as stated: for every input whose first record has level 0, the
\* forest of GedcomTree::from equals the forest of the forward
\* explicit-stack algorithm.
C21_Original_EqualsForwardForest ==
    (TreeDone /\ input[1].level = 0) => nodes = ForwardForest(input)

\* C21 amended: for every input whose first record has level 0 and in which
\* no record is more than one level deeper than the record before it, the
\* forest of GedcomTree::from equals the forest of the forward
\* explicit-stack algorithm.
C21_EqualsForwardForestWhenWellNested ==
    (TreeDone /\ WellNested(input)) => nodes = ForwardForest(input)

\* a finished forest of a well nested input in which a record below the
\* root closes two open levels at once; it is the forest of the forward
\* algorithm
C21_Witness ==
    /\ TreeDone
    /\ WellNested(input)
    /\ \E i \in 2..Len(input) : input[i].level >= 1 /\ input[i].level + 2 <= input[i - 1].level
    /\ Len(nodes[1].children) >= 2
    /\ nodes = ForwardForest(input)

\* ------------------------------------------------------------------------
\* Claims about parse_level (SpecLevel)
\* ------------------------------------------------------------------------

LevelRan == level_result.kind # "NotRun"

IsDigitAt(text, i) == i <= Len(text) /\ text[i] \in DigitChars

\* C8: parse_level takes at most the first two digits: one digit gives
\* 0..9, two digits not starting with 0 give 10..99, two digits starting
\* with 0 are an unrecoverable failure, a third digit stays in the
\* remainder, and a result lies in 0..99.
C8_LevelOfAtMostTwoDigits ==
    LevelRan =>
        /\ (IsDigitAt(level_input, 1) /\ ~IsDigitAt(level_input, 2)) =>
              level_result = POk(Drop(level_input, 1), DigitValue(level_input[1]))
        /\ (IsDigitAt(level_input, 1) /\ IsDigitAt(level_input, 2)
              /\ level_input[1] # "0") =>
              level_result =
                  POk(Drop(level_input, 2),
                      10 * DigitValue(level_input[1]) + DigitValue(level_input[2]))
        /\ (IsDigitAt(level_input, 1) /\ IsDigitAt(level_input, 2)
              /\ level_input[1] = "0") =>
              level_result.kind = "Failure"
        /\ IsOk(level_result) =>
              /\ Unwrap(level_result.out) \in 0..99
              /\ Len(level_input) - Len(level_result.rest) <= 2

\* parse_level has run on "100" and returned level 10 with "0" left
C8_Witness ==
    /\ level_input = <<"1", "0", "0">>
    /\ level_result = POk(<<"0">>, 10)

\* ------------------------------------------------------------------------
\* Claims about the tag vocabulary and parse_tag (SpecTag)
\* ------------------------------------------------------------------------

TagRan == tag_result.kind # "NotRun"

UpperChar(c) ==
    IF c \in Range(LOWER) THEN UPPER[CHOOSE i \in 1..Len(LOWER) : LOWER[i] = c]
    ELSE c

UpperText(text) == [i \in 1..Len(text) |-> UpperChar(text[i])]

\* the text is one token: one or more letters, digits or underscores
IsToken(text) == text # <<>> /\ \A i \in 1..Len(text) : text[i] \in AlphanumChars

\* the token is a known code in some mix of upper and lower case
IsCodeInAnyCase(text) == IsSome(FromStrKnown(UpperText(text)))

\* `_` followed by one or more letters, digits or underscores
HasCustomShape(text) ==
    /\ Len(text) >= 2
    /\ text[1] = "_"
    /\ \A i \in 2..Len(text) :
          text[i] \in Range(UPPER) \cup Range(LOWER) \cup DigitChars \cup {"_"}

\* C6: every upper/lower-case variant of a known code classifies to the tag
\* of that code.
C6_KnownCodeInAnyCase ==
    (TagRan /\ IsToken(tag_input) /\ IsCodeInAnyCase(tag_input)) =>
        tag_result = POk(<<>>, Unwrap(FromStrKnown(UpperText(tag_input))))

\* C7: a token that is not a known code is Custom(token), the text kept as
\* it is, if and only if it is `_` followed by one or more letters, digits or
\* underscores; any other such token is an unrecoverable failure of
\* parse_tag.
C7_CustomOrFailure ==
    (TagRan /\ IsToken(tag_input) /\ ~IsCodeInAnyCase(tag_input)) =>
        IF HasCustomShape(tag_input)
        THEN tag_result = POk(<<>>, Custom(tag_input))
        ELSE tag_result.kind = "Failure"

\* parse_tag has classified the token `_Se`, which is no known code, as a
\* custom tag
C7_Witness ==
    /\ tag_input = <<"_", "S", "e">>
    /\ IsOk(tag_result)
    /\ Unwrap(tag_result.out).kind = "Custom"

\* ------------------------------------------------------------------------
\* Claims about parse_gedcom and gedcom_to_relation_json (SpecParse)
\* ------------------------------------------------------------------------

ParseDone == parse_pc = "done"

\* the line, taken alone, matches the line grammar
LineMatches(l) == IsOk(parse_gedcom_line(l)) /\ parse_gedcom_line(l).rest = <<>>

\* the first line of the document that does not match the grammar, 0 if all do
FirstOffending(ls) ==
    IF \A i \in 1..Len(ls) : LineMatches(ls[i]) THEN 0
    ELSE CHOOSE i \in 1..Len(ls) :
             ~LineMatches(ls[i]) /\ \A j \in 1..(i - 1) : LineMatches(ls[j])

\* the records of the first n lines
RecordsOf(ls, n) == [i \in 1..n |-> Unwrap(parse_gedcom_line(ls[i]).out)]

\* parse_gedcom returned an error, no record went on and no JSON was made
NothingProduced ==
    /\ ~IsOk(parse_result)
    /\ tree_input = None
    /\ json_result = "Err"

AfterDelim(text) ==
    LET ds == {i \in 1..Len(text) : text[i] = DELIM}
    IN  IF ds = {} THEN <<>>
        ELSE Drop(text, CHOOSE i \in ds : \A j \in ds : i <= j)

\* the text up to the first delimiter or terminator
FirstWord(text) ==
    LET es == {i \in 1..Len(text) : text[i] \in {DELIM, CR, LF}}
    IN  IF es = {} THEN text
        ELSE Take(text, (CHOOSE i \in es : \A j \in es : i <= j) - 1)

\* the word of the line where the tag is due: the second, or the third
\* when the second is a label
TagWord(l) ==
    IF AfterDelim(l) # <<>> /\ AfterDelim(l)[1] = AT
    THEN FirstWord(AfterDelim(AfterDelim(l)))
    ELSE FirstWord(AfterDelim(l))

\* the line has a two-digit level starting with 0
HasZeroLedLevel(l) == Len(l) >= 2 /\ l[1] = "0" /\ l[2] \in DigitChars

\* the line has a word where the tag is due that is no tag
HasUnrecognisedTag(l) == TagWord(l) # <<>> /\ ~IsSome(FromStr(TagWord(l)))

\* the number of leading lines of the document that each parse
ParsingPrefix(ls) ==
    IF FirstOffending(ls) = 0 THEN Len(ls) ELSE FirstOffending(ls) - 1

\* parse_gedcom returned the records of the first n lines and the text of
\* the other lines, and the records went on to the tree builder
PrefixConverted(n) ==
    /\ parse_result =
          POk(Concat(SubSeq(doc_lines, n + 1, Len(doc_lines))), RecordsOf(doc_lines, n))
    /\ tree_input = Some(RecordsOf(doc_lines, n))
    /\ json_result = "Converting"

\* C27: parse_gedcom yields the records of the longest prefix of lines
\* that each parse: when every line parses, or a line other than the first
\* fails with a recoverable error, the result is Ok with the records of the
\* lines before it, and gedcom_to_relation_json converts only those and
\* ignores the unconsumed text; an error is returned only when the first
\* line fails or a line has a two-digit level starting with 0 or an
\* unrecognised tag.
C27_LongestParsingPrefix ==
    ParseDone =>
        /\ ( \/ FirstOffending(doc_lines) = 0
             \/ /\ FirstOffending(doc_lines) > 1
                /\ parse_gedcom_line(doc_lines[FirstOffending(doc_lines)]).kind = "Error" )
              => PrefixConverted(ParsingPrefix(doc_lines))
        /\ json_result = "Err" =>
              \/ FirstOffending(doc_lines) = 1
              \/ \E i \in 1..Len(doc_lines) :
                    HasZeroLedLevel(doc_lines[i]) \/ HasUnrecognisedTag(doc_lines[i])
        /\ json_result \in {"Err", "Converting"}

\* a document of two valid lines and a last line without terminator has
\* been converted: the records of the two lines went on, the last line is
\* the unconsumed text
C27_Witness ==
    /\ ParseDone
    /\ Len(doc_lines) = 3
    /\ doc_lines[3] = DocLineNoTerminator
    /\ FirstOffending(doc_lines) = 3
    /\ parse_result.rest = DocLineNoTerminator
    /\ PrefixConverted(2)

\* ApiResponse::from as a function of the forest: the collections and the
\* map after each root, and the response at the end

\* let mut childs, familys, persons = vec![]; persons_id_map = HashMap::new()
LoopStart ==
    [kind |-> "Ok", childs |-> <<>>, familys |-> <<>>, persons |-> <<>>, map |-> EmptyMap]

\* the Individual arm for a labelled root, handed the outcome of
\* Person::try_from
IndividualArm(st, label, person) ==
    IF person.kind = "Ok"
    THEN [st EXCEPT !.map = Inserted(st.map, label, Unwrap(person.out).id),
                    !.persons = Append(st.persons, Unwrap(person.out))]
    ELSE IF person.kind = "Panic" THEN [st EXCEPT !.kind = "Panic"]
    ELSE st

\* the end of the Family arm: the rows pushed by the loop, and the Family if
\* it is built
FamilyArmEnd(st, arm, family) ==
    [st EXCEPT !.childs = st.childs \o arm.childs,
               !.familys = IF family.kind = "Ok"
                           THEN Append(st.familys, Unwrap(family.out))
                           ELSE st.familys]

\* the body of the loop over the roots: match node.tag()
LoopBody(st, node) ==
    IF node.tag = Tag("Individual") /\ IsSome(node.xref_id)
    THEN IndividualArm(st, Unwrap(node.xref_id), PersonTryFromRoot[node])
    ELSE IF node.tag = Tag("Family") /\ IsSome(node.xref_id)
    THEN LET arm == FamilyArm(node, st.map)
         IN  FamilyArmEnd(st, arm, FamilyBuilderBuild(arm.builder))
    ELSE st

RECURSIVE LoopFrom(_, _, _)

\* the loop from the i-th root on; a panic ends it
LoopFrom(forest, i, st) ==
    IF st.kind = "Panic" \/ i > Len(forest) THEN st
    ELSE LoopFrom(forest, i + 1, LoopBody(st, forest[i]))

\* Self { childs, familys, persons, ..Default::default() }
ResponseOf(st) ==
    [childs |-> st.childs, fact_types |-> <<>>, familys |-> st.familys,
     master_sources |-> <<>>, medias |-> <<>>, persons |-> st.persons,
     source_repos |-> <<>>]

\* impl From<GedcomTree> for ApiResponse
ApiResponseFrom(forest) ==
    LET st == LoopFrom(forest, 1, LoopStart)
    IN  IF st.kind = "Panic" THEN RPanic ELSE ROk(ResponseOf(st))

\* ------------------------------------------------------------------------
\* change_node_to_date_time on its own: models/gedcom.rs
\* ------------------------------------------------------------------------

OtherTimeText == <<"0", "1", ":", "0", "2", ":", "0", "3">>

TimeLeaf(tag, value) == Leaf(3, tag, value)

\* the children a node under a Change node can have
TimeLists ==
    {<<>>,
     <<TimeLeaf(Tag("Time"), Some(TimeText))>>,
     <<TimeLeaf(Tag("Time"), None)>>,
     <<TimeLeaf(Tag("Time"), Some(InvalidTimeText))>>,
     <<TimeLeaf(Tag("Note"), Some(OtherTimeText))>>,
     <<TimeLeaf(Tag("Note"), Some(OtherTimeText)), TimeLeaf(Tag("Time"), Some(TimeText))>>,
     <<TimeLeaf(Tag("Time"), Some(TimeText)), TimeLeaf(Tag("Note"), Some(OtherTimeText))>>,
     <<TimeLeaf(Tag("Time"), None), TimeLeaf(Tag("Time"), Some(TimeText))>>}

\* the children a Change node can have: 2 DATE with or without a value, and
\* a node of another tag that carries a date
DateNodes ==
    {TreeNode(2, None, Tag("Date"), Some(DateText), ts) : ts \in TimeLists}
       \cup {TreeNode(2, None, Tag("Date"), None, ts) : ts \in TimeLists}
       \cup {TreeNode(2, None, Tag("Note"), Some(BirthDateText), ts) : ts \in TimeLists}

ChangeNodes ==
    {TreeNode(1, None, Tag("Change"), None, ds) :
        ds \in SeqsOf(DateNodes, 0, MaxChangeChildren)}

ChangeInit ==
    /\ change_node \in ChangeNodes
    /\ change_result = None
    /\ NotChangeIdle

\* the call of change_node_to_date_time as it would be if it looked for the
\* first child with the Date tag
ChangeRun_MutFindsDate ==
    /\ change_result = None
    /\ LET dates == SelectSeq(change_node.children, LAMBDA c : c.tag = Tag("Date"))
       IN  change_result' =
              Some(change_node_to_date_time([change_node EXCEPT !.children = dates]))
    /\ UNCHANGED <<change_node, notChangeVars>>

\* the call of change_node_to_date_time
ChangeRun ==
    /\ change_result = None
    /\ change_result' = Some(change_node_to_date_time(change_node))
    /\ UNCHANGED <<change_node, notChangeVars>>

ChangeNext == ChangeRun

SpecChange == ChangeInit /\ [][ChangeNext]_vars

\* ------------------------------------------------------------------------
\* Claims about the relational mapper (SpecMap)
\* ------------------------------------------------------------------------

\* ApiResponse::from has returned
MapDone == map_pc = "done"

\* the root has a child with the tag
HasChild(node, kind) == \E i \in 1..Len(node.children) : node.children[i].tag = Tag(kind)

\* the root has a Change child with a valid date and time
HasValidChange(node) ==
    \E i \in 1..Len(node.children) :
        /\ node.children[i].tag = Tag("Change")
        /\ change_node_to_date_time(node.children[i]).kind = "Ok"

\* the root has a child with the tag whose pointer is a key of the map
HasResolved(node, kind, map) ==
    \E i \in 1..Len(node.children) :
        /\ node.children[i].tag = Tag(kind)
        /\ IsSome(node.children[i].line_value)
        /\ Unwrap(node.children[i].line_value) \in DOMAIN map

\* a Birth child of the root without a `_PRIM Y` sub-child
HasBirthNotPreferred(node) ==
    \E i \in 1..Len(node.children) :
        /\ node.children[i].tag = Tag("Birth")
        /\ ~\E j \in 1..Len(node.children[i].children) :
              /\ node.children[i].children[j].tag = Custom(<<"_", "P", "R", "I", "M">>)
              /\ node.children[i].children[j].line_value = Some(<<"Y">>)

\* C1: for every forest of a document that parse_gedcom accepts, the
\* mapping stage never aborts, whatever children the Individual and Family
\* records have: the walk is under way or has returned the response, for
\* Birth children with `_PRIM Y`, with another `_PRIM` value and with no
\* `_PRIM` sub-child alike.
C1_MappingNeverAborts == map_pc \in {"walk", "done"}

\* the loop is at an Individual root that carries a label
AtLabelledIndividual == AtRoot("Individual") /\ IsSome(tree[node_idx].xref_id)

\* a gender, an identifier and a creation timestamp can be derived from the
\* direct children of a labelled Individual root: a Sex child, the label, a
\* Change child with a valid date and time
Derivable(node) == HasChild(node, "Sex") /\ HasValidChange(node)

\* C9: for each Individual root carrying a label, a Person is emitted and
\* its label registered in the label -> id map if a gender, an identifier
\* and a creation timestamp can all be derived from its direct children;
\* otherwise no Person is emitted and no map entry is written; either way
\* the walk continues with the next root.
C9_PersonIffDerivable ==
    [][AtLabelledIndividual =>
          /\ map_pc' = "walk"
          /\ node_idx' = node_idx + 1
          /\ IF Derivable(tree[node_idx])
             THEN /\ Len(persons') = Len(persons) + 1
                  /\ SubSeq(persons', 1, Len(persons)) = persons
                  /\ Unwrap(tree[node_idx].xref_id) \in DOMAIN persons_id_map'
                  /\ persons_id_map'[Unwrap(tree[node_idx].xref_id)] =
                        persons'[Len(persons')].id
             ELSE /\ persons' = persons
                  /\ persons_id_map' = persons_id_map]_vars

\* a creation timestamp, a resolved father id and a resolved mother id are
\* set from the direct children of a Family root; only a root with a label
\* has its children read
AllSet(node, map) ==
    /\ IsSome(node.xref_id)
    /\ HasValidChange(node)
    /\ HasResolved(node, "Husband", map)
    /\ HasResolved(node, "Wife", map)

\* C10: a Family entity is emitted for a Family record if and only if a
\* creation timestamp, a resolved father id and a resolved mother id have
\* all been set from its direct children; otherwise the record yields no
\* Family entity; either way no error is raised, no Person is touched and
\* the walk goes on to the next root.
C10_FamilyIffAllSet ==
    [][AtRoot("Family") =>
          /\ map_pc' = "walk"
          /\ node_idx' = node_idx + 1
          /\ persons' = persons
          /\ persons_id_map' = persons_id_map
          /\ IF AllSet(tree[node_idx], persons_id_map)
             THEN /\ Len(familys') = Len(familys) + 1
                  /\ SubSeq(familys', 1, Len(familys)) = familys
                  /\ familys'[Len(familys')].id = FamilyId(Unwrap(tree[node_idx].xref_id))
             ELSE familys' = familys]_vars

\* a Person, then a Family record without a resolved mother, which is
\* dropped, then a Family record with everything set, which is emitted: the
\* walk is over and the one Family of the output is the later record's
C10_Witness ==
    /\ MapDone
    /\ Len(tree) = 3
    /\ Len(persons) = 1
    /\ tree[2].tag = Tag("Family")
    /\ IsSome(tree[2].xref_id)
    /\ HasValidChange(tree[2])
    /\ HasResolved(tree[2], "Husband", persons_id_map)
    /\ ~HasChild(tree[2], "Wife")
    /\ tree[3].tag = Tag("Family")
    /\ AllSet(tree[3], persons_id_map)
    /\ Len(familys) = 1
    /\ familys[1].id = FamilyId(Unwrap(tree[3].xref_id))
    /\ familys[1].id # FamilyId(Unwrap(tree[2].xref_id))

\* the loop is at a Family root that carries a label
AtLabelledFamily == AtRoot("Family") /\ IsSome(tree[node_idx].xref_id)

\* the CHIL children of the root whose pointer is a key of the map, in order
ResolvedChil(node, map) ==
    SelectSeq(node.children,
              LAMBDA c : /\ c.tag = Tag("Child")
                         /\ IsSome(c.line_value)
                         /\ Unwrap(c.line_value) \in DOMAIN map)

\* C11: when a Family record is dropped (a mandatory field is missing at
\* build time), one Child row per resolved CHIL child is still appended to
\* childs, carrying the FamilyId of the record, while nothing is added to
\* familys; no step ever takes a row back, and the rows are handed to the
\* response as they are.
C11_RowsOfDroppedFamilyStay ==
    [][/\ Len(childs') >= Len(childs)
       /\ SubSeq(childs', 1, Len(childs)) = childs
       /\ map_pc' = "done" => Unwrap(api_response').childs = childs
       /\ (AtLabelledFamily /\ ~AllSet(tree[node_idx], persons_id_map)) =>
             /\ familys' = familys
             /\ Len(childs') =
                   Len(childs) + Len(ResolvedChil(tree[node_idx], persons_id_map))
             /\ \A i \in (Len(childs) + 1)..Len(childs') :
                   childs'[i].family_id = FamilyId(Unwrap(tree[node_idx].xref_id))]_vars

\* the response holds a Child row whose FamilyId is the id of no Family of
\* the response
C11_Witness ==
    /\ MapDone
    /\ \E i \in 1..Len(Unwrap(api_response).childs) :
          \A j \in 1..Len(Unwrap(api_response).familys) :
              Unwrap(api_response).familys[j].id # Unwrap(api_response).childs[i].family_id

\* C12: for every Family record, each CHIL child whose pointer resolves
\* yields exactly one Child row; all rows of one Family record share the
\* same FamilyId, and any two rows of two CHIL children of one Family record
\* have distinct join-row Ids.
C12_RowsOfOneFamilyDistinct ==
    [][AtLabelledFamily =>
          /\ Len(childs') =
                Len(childs) + Len(ResolvedChil(tree[node_idx], persons_id_map))
          /\ \A i, j \in (Len(childs) + 1)..Len(childs') :
                /\ childs'[i].family_id = childs'[j].family_id
                /\ i # j => childs'[i].id # childs'[j].id]_vars

LabelNumber(label) == DecimalValue(SelectSeq(label, LAMBDA c : c \in DigitChars))

\* C14: an emitted Family whose label carries the number n has Id
\* 10000000 + n, and every Child row of that Family record carries that
\* same value as FamilyId.
C14_FamilyIdFromTenMillion ==
    [][AtLabelledFamily =>
          /\ Len(familys') > Len(familys) =>
                familys'[Len(familys')].id =
                   10000000 + LabelNumber(Unwrap(tree[node_idx].xref_id))
          /\ Len(childs') >= Len(childs)
          /\ \A i \in (Len(childs) + 1)..Len(childs') :
                childs'[i].family_id =
                   10000000 + LabelNumber(Unwrap(tree[node_idx].xref_id))]_vars

\* C15: Child rows are numbered sequentially in emission order starting at
\* 20000001, whatever the Person id of the child: the i-th row of childs
\* has Id 20000000 + i.
C15_ChildRowsNumberedInOrder ==
    \A i \in 1..Len(childs) : childs[i].id = 20000000 + i

\* the value of the last Sex child of the root, the empty text if it has none
SexValue(node) ==
    LET sexes == SelectSeq(node.children, LAMBDA c : c.tag = Tag("Sex"))
        last == sexes[Len(sexes)]
    IN  IF IsSome(last.line_value) THEN Unwrap(last.line_value) ELSE <<>>

\* the gender code the single-letter code stands for
ExpectedGender(value) ==
    IF value \in {<<"M">>, <<"m">>} THEN 1
    ELSE IF value \in {<<"F">>, <<"f">>} THEN 2
    ELSE 3

\* every Change child of the root has a valid date and time
AllChangeValid(node) ==
    \A i \in 1..Len(node.children) :
        node.children[i].tag = Tag("Change") =>
           change_node_to_date_time(node.children[i]).kind = "Ok"

\* C16: the gender of a Person is derived from the value of its Sex child
\* case-insensitively: M/m gives 1, F/f gives 2, every other value and an
\* absent value give 3; and a labelled Individual with a Sex child, valid
\* Change children and no Birth child that lacks its marker is emitted
\* whatever the value of the Sex child is.
C16_GenderFromSex ==
    [][(AtLabelledIndividual /\ HasChild(tree[node_idx], "Sex")) =>
          /\ Len(persons') > Len(persons) =>
                persons'[Len(persons')].gender = ExpectedGender(SexValue(tree[node_idx]))
          /\ ( /\ HasValidChange(tree[node_idx])
               /\ AllChangeValid(tree[node_idx])
               /\ ~HasBirthNotPreferred(tree[node_idx]) ) =>
                /\ Len(persons') = Len(persons) + 1
                /\ map_pc' = "walk"]_vars

\* three Individuals are emitted, one for each gender code: M gave 1, a
\* lower-case f gave 2 and a Sex child without a value gave 3
C16_Witness ==
    /\ MapDone
    /\ Len(persons) = 3
    /\ \A i \in 1..3 :
          /\ tree[i].tag = Tag("Individual")
          /\ HasChild(tree[i], "Sex")
          /\ persons[i].gender = ExpectedGender(SexValue(tree[i]))
    /\ SexValue(tree[1]) = <<"M">> /\ persons[1].gender = 1
    /\ SexValue(tree[2]) = <<"f">> /\ persons[2].gender = 2
    /\ SexValue(tree[3]) = <<>> /\ persons[3].gender = 3

\* every entry of the map stays and keeps its value over the step
EntriesKept ==
    \A l \in DOMAIN persons_id_map :
        /\ l \in DOMAIN persons_id_map'
        /\ persons_id_map'[l] = persons_id_map[l]

\* the step writes an entry of the map: the Individual arm inserts exactly
\* when it pushes a Person
WritesEntry == Len(persons') > Len(persons)

OutcomeIs(outcome) ==
    IF MapDone
    THEN outcome.kind = "Ok" /\ api_response = outcome.out
    ELSE map_pc = "panicked" /\ outcome.kind = "Panic"

HasRoot(kind) == \E i \in 1..Len(tree) : tree[i].tag = Tag(kind)

\* C19: for every forest the result of the mapper has empty FactTypes,
\* MasterSources, Medias and SourceRepos collections, whatever records the
\* forest holds, top-level source records included.
C19_PlaceholdersEmpty ==
    IsSome(api_response) =>
       /\ Unwrap(api_response).fact_types = <<>>
       /\ Unwrap(api_response).master_sources = <<>>
       /\ Unwrap(api_response).medias = <<>>
       /\ Unwrap(api_response).source_repos = <<>>

\* the mapper has returned for a forest with a top-level source record and
\* an accepted Individual: a Person in the result, nothing in the four
\* placeholder collections
C19_Witness ==
    /\ MapDone
    /\ HasRoot("Source")
    /\ Len(Unwrap(api_response).persons) >= 1
    /\ Unwrap(api_response).master_sources = <<>>
    /\ Unwrap(api_response).medias = <<>>

\* the loop is at a root that is neither an Individual nor a Family
AtOtherRoot ==
    /\ map_pc = "walk"
    /\ node_idx <= Len(tree)
    /\ tree[node_idx].tag \notin {Tag("Individual"), Tag("Family")}

\* the forest without the roots that are neither Individual nor Family
WithoutOtherRoots(forest) ==
    SelectSeq(forest, LAMBDA n : n.tag \in {Tag("Individual"), Tag("Family")})

\* the collections and the map are those of the loop state
SameAs(st) ==
    /\ st.kind = "Ok"
    /\ persons = st.persons
    /\ familys = st.familys
    /\ childs = st.childs
    /\ persons_id_map = st.map

\* C20: a root whose tag is neither Individual nor Family leaves the
\* mapper's state unchanged: the step over it changes neither Persons,
\* Familys, Childs nor the label map and goes on to the next root, and the
\* collections and the map at the end of the walk are those of the forest
\* with every such root removed.
C20_OtherRootsIgnored ==
    /\ [][AtOtherRoot =>
             /\ persons' = persons
             /\ familys' = familys
             /\ childs' = childs
             /\ persons_id_map' = persons_id_map
             /\ node_idx' = node_idx + 1
             /\ map_pc' = "walk"]_vars
    /\ [](MapDone => SameAs(LoopFrom(WithoutOtherRoots(tree), 1, LoopStart)))

\* the walk is over for a forest with a root of another tag between an
\* accepted Individual and a Family record that names that Individual: the
\* Person and the Family are in the result and the map still has the entry
C20_Witness ==
    /\ MapDone
    /\ Len(tree) = 3
    /\ tree[1].tag = Tag("Individual")
    /\ tree[2].tag \notin {Tag("Individual"), Tag("Family")}
    /\ tree[3].tag = Tag("Family")
    /\ Len(persons) = 1
    /\ Len(familys) = 1
    /\ Unwrap(tree[1].xref_id) \in DOMAIN persons_id_map

\* the label is that of an Individual root before position idx that was
\* accepted as a Person
AcceptedBefore(label, idx) ==
    \E i \in 1..(idx - 1) :
        /\ tree[i].tag = Tag("Individual")
        /\ tree[i].xref_id = Some(label)
        /\ PersonTryFromRoot[tree[i]].kind = "Ok"

\* the children of the root with the tag whose pointer names an Individual
\* accepted before position idx
PointersTo(node, kind, idx) ==
    SelectSeq(node.children,
              LAMBDA c : /\ c.tag = Tag(kind)
                         /\ IsSome(c.line_value)
                         /\ AcceptedBefore(Unwrap(c.line_value), idx))

\* C23: a HUSB, WIFE or CHIL pointer of a Family record resolves only to an
\* Individual accepted as a Person earlier in the walk; when no HUSB
\* pointer, or no WIFE pointer, names such an Individual the Family is
\* dropped, and one Child row is emitted for each CHIL pointer that names
\* one and none for the others.
C23_PointersResolveBackwards ==
    [][AtLabelledFamily =>
          /\ PointersTo(tree[node_idx], "Husband", node_idx) = <<>> => familys' = familys
          /\ PointersTo(tree[node_idx], "Wife", node_idx) = <<>> => familys' = familys
          /\ Len(childs') =
                Len(childs) + Len(PointersTo(tree[node_idx], "Child", node_idx))
          /\ Len(familys') > Len(familys) =>
                /\ \E i \in 1..Len(persons) :
                      persons[i].id = familys'[Len(familys')].father_id
                /\ \E i \in 1..Len(persons) :
                      persons[i].id = familys'[Len(familys')].mother_id]_vars

\* the walk is over for a forest whose Family record comes before the two
\* Individuals its HUSB, WIFE and CHIL pointers name: both Individuals were
\* accepted, and there is no Family and no Child row
C23_Witness ==
    /\ MapDone
    /\ Len(tree) = 3
    /\ tree[1].tag = Tag("Family")
    /\ IsSome(tree[1].xref_id)
    /\ HasValidChange(tree[1])
    /\ PointersTo(tree[1], "Husband", 4) # <<>>
    /\ PointersTo(tree[1], "Wife", 4) # <<>>
    /\ PointersTo(tree[1], "Child", 4) # <<>>
    /\ Len(persons) = 2
    /\ familys = <<>>
    /\ childs = <<>>

\* the Change children of the root
ChangeChildren(node) == SelectSeq(node.children, LAMBDA c : c.tag = Tag("Change"))

\* what Person::try_from gives for an Individual with a label, a Sex child
\* and these Change children
PersonWithChanges(changes) ==
    PersonTryFrom(Individual(Some(LabelI1), <<SexNode(Some(<<"M">>))>> \o changes))

\* the Family arm pushes a Family with the timestamp of the Person, or none
\* if there is no Person
SameTimestampAs(person) ==
    IF person.kind = "Ok"
    THEN /\ Len(familys') = Len(familys) + 1
         /\ familys'[Len(familys')].date_created = Unwrap(person.out).date_created
    ELSE familys' = familys

\* C24: the creation timestamp of a Family is derived from its Change
\* children exactly as for a Person: for a Family record whose HUSB and WIFE
\* pointers resolve, the Family is emitted with the timestamp that an
\* Individual with the same list of Change children obtains, and it is
\* dropped when that Individual is dropped, also for lists with several
\* Change children of which some are invalid.
C24_FamilyTimestampAsPerson ==
    [][( /\ AtLabelledFamily
         /\ HasResolved(tree[node_idx], "Husband", persons_id_map)
         /\ HasResolved(tree[node_idx], "Wife", persons_id_map) ) =>
          SameTimestampAs(PersonWithChanges(ChangeChildren(tree[node_idx])))]_vars

\* after is before with entries added at its end
Extends(after, before) ==
    /\ Len(after) >= Len(before)
    /\ SubSeq(after, 1, Len(before)) = before

\* C25: output collections preserve document order: the walk goes through
\* the roots from the first to the last, every step adds to the end of
\* Persons, Familys and Childs and to no other place, the Person or Family
\* added is that of the root the walk is at, the Child rows added are those
\* of the resolved CHIL children of that root in the order of these
\* children, and the response holds the three collections as they are.
C25_DocumentOrder ==
    [][/\ Extends(persons', persons)
       /\ Extends(familys', familys)
       /\ Extends(childs', childs)
       /\ node_idx' \in {node_idx, node_idx + 1}
       /\ Len(persons') <= Len(persons) + 1
       /\ Len(familys') <= Len(familys) + 1
       /\ Len(persons') > Len(persons) =>
             /\ AtLabelledIndividual
             /\ node_idx' = node_idx + 1
             /\ Some(persons'[Len(persons')]) = PersonTryFromRoot[tree[node_idx]].out
       /\ Len(familys') > Len(familys) =>
             /\ AtLabelledFamily
             /\ node_idx' = node_idx + 1
             /\ familys'[Len(familys')].id = FamilyId(Unwrap(tree[node_idx].xref_id))
       /\ Len(childs') > Len(childs) =>
             /\ AtLabelledFamily
             /\ node_idx' = node_idx + 1
             /\ Len(childs') =
                   Len(childs) + Len(ResolvedChil(tree[node_idx], persons_id_map))
             /\ \A k \in 1..(Len(childs') - Len(childs)) :
                   childs'[Len(childs) + k].child_id =
                      persons_id_map[Unwrap(ResolvedChil(tree[node_idx],
                                                         persons_id_map)[k].line_value)]
       /\ map_pc' = "done" =>
             /\ Unwrap(api_response').persons = persons
             /\ Unwrap(api_response').familys = familys
             /\ Unwrap(api_response').childs = childs]_vars

\* the walk is over for a forest whose order is not the order of the ids:
\* the Individual with id 2 comes before the one with id 1, and the Family
\* record names them as children in the order 1, 2; Persons and Childs are
\* in the order of the document
C25_Witness ==
    /\ MapDone
    /\ Len(Unwrap(api_response).persons) = 2
    /\ Unwrap(api_response).persons[1].id = 2
    /\ Unwrap(api_response).persons[2].id = 1
    /\ Len(Unwrap(api_response).childs) = 2
    /\ Unwrap(api_response).childs[1].child_id = 1
    /\ Unwrap(api_response).childs[2].child_id = 2

\* C28: Person ids are unique in the output: no two entries of Persons
\* share the same Id, also when two Individual roots carry the same label
\* or labels from which no numeric id can be derived.
C28_PersonIdsUnique ==
    \A i, j \in 1..Len(persons) : i # j => persons[i].id # persons[j].id

\* the loop is at a Family root that carries no label
AtUnlabelledFamily == AtRoot("Family") /\ ~IsSome(tree[node_idx].xref_id)

\* C30: a Family root without a label contributes nothing to the output:
\* the step over it adds no Family and no Child row and changes neither
\* Persons nor the label map, even when its HUSB, WIFE and CHIL pointers all
\* resolve and it has a valid Change child; the walk goes on.
C30_UnlabelledFamilyIgnored ==
    [][AtUnlabelledFamily =>
          /\ familys' = familys
          /\ childs' = childs
          /\ persons' = persons
          /\ persons_id_map' = persons_id_map
          /\ node_idx' = node_idx + 1
          /\ map_pc' = "walk"]_vars

\* the walk is over for a forest of two accepted Individuals and a Family
\* root without a label that names them as husband, wife and child and has
\* a valid Change child: no Family and no Child row
C30_Witness ==
    /\ MapDone
    /\ Len(tree) = 3
    /\ tree[3].tag = Tag("Family")
    /\ ~IsSome(tree[3].xref_id)
    /\ HasValidChange(tree[3])
    /\ HasResolved(tree[3], "Husband", persons_id_map)
    /\ HasResolved(tree[3], "Wife", persons_id_map)
    /\ HasResolved(tree[3], "Child", persons_id_map)
    /\ Len(persons) = 2
    /\ Unwrap(api_response).familys = <<>>
    /\ Unwrap(api_response).childs = <<>>

\* ------------------------------------------------------------------------
\* Claims about change_node_to_date_time (SpecChange)
\* ------------------------------------------------------------------------

\* the day a date text of the inputs stands for, <<>> if it stands for none
DayOfText(date) ==
    IF date = DateText THEN <<2020, 4, 15>>
    ELSE IF date = BirthDateText THEN <<1990, 1, 1>>
    ELSE <<>>

\* the time of day a time text of the inputs stands for
TimeOfText(time) ==
    IF time = TimeText THEN <<16, 19, 21>>
    ELSE IF time = OtherTimeText THEN <<1, 2, 3>>
    ELSE <<>>

\* the timestamp of a day and a time of day
Timestamp(d, t) ==
    [year |-> d[1], month |-> d[2], day |-> d[3],
     hour |-> t[1], minute |-> t[2], second |-> t[3], leap |-> FALSE]

\* what the date text and the time text give
ExpectedOfTexts(d, t) ==
    IF d = <<>> \/ t = <<>> THEN RErr("Gedcom Change has invalid date_time")
    ELSE ROk(Timestamp(d, t))

\* the first applicable error in the fixed order, or the timestamp
ExpectedOfChange(node) ==
    IF Len(node.children) = 0 THEN RErr("Gedcom Change has no date")
    ELSE IF ~IsSome(node.children[1].line_value) THEN RErr("Gedcom Date has no value")
    ELSE IF Len(node.children[1].children) = 0 THEN RErr("Gedcom Date has no time")
    ELSE IF ~IsSome(node.children[1].children[1].line_value)
    THEN RErr("Gedcom Time has no value")
    ELSE ExpectedOfTexts(DayOfText(Unwrap(node.children[1].line_value)),
                         TimeOfText(Unwrap(node.children[1].children[1].line_value)))

\* C22: change_node_to_date_time reports the first applicable error in the
\* order: no date (the Change has no child), the date has no value, the
\* date has no time (no child), the time has no value, invalid date_time;
\* it returns Ok with the timestamp only when none applies. A date node
\* without value and without time child reports the missing value.
C22_FirstErrorInFixedOrder ==
    IsSome(change_result) => Unwrap(change_result) = ExpectedOfChange(change_node)

\* the function has returned "Gedcom Date has no value" for a Change node
\* whose date node has neither a value nor a child
C22_Witness ==
    /\ IsSome(change_result)
    /\ Len(change_node.children) >= 1
    /\ ~IsSome(change_node.children[1].line_value)
    /\ change_node.children[1].children = <<>>
    /\ Unwrap(change_result) = RErr("Gedcom Date has no value")

\* the node with its first child only, tagged Date, which has its own first
\* child only, tagged Time
FirstChildrenOnly(node) ==
    IF node.children = <<>> THEN node
    ELSE LET d == node.children[1]
             ts == IF d.children = <<>> THEN <<>>
                   ELSE <<[d.children[1] EXCEPT !.tag = Tag("Time"), !.children = <<>>]>>
         IN  [node EXCEPT !.children = <<[d EXCEPT !.tag = Tag("Date"), !.children = ts]>>]

\* the result is a timestamp on the day
OnDay(result, d) ==
    /\ result.kind = "Ok"
    /\ d # <<>>
    /\ <<Unwrap(result.out).year, Unwrap(result.out).month, Unwrap(result.out).day>> = d

\* the result is a timestamp at the time of day
AtTime(result, t) ==
    /\ result.kind = "Ok"
    /\ t # <<>>
    /\ <<Unwrap(result.out).hour, Unwrap(result.out).minute, Unwrap(result.out).second>> = t

\* C29: change_node_to_date_time takes the date text from the first child
\* of the Change node and the time text from the first child of that child,
\* whatever their tags, and consults no other child: the result is that of
\* the node cut down to these two, and it is never the day of a later child
\* with another date nor the time of a later child of the first child with
\* another time.
C29_FirstChildrenOnly ==
    IsSome(change_result) =>
        /\ Unwrap(change_result) = change_node_to_date_time(FirstChildrenOnly(change_node))
        /\ \A i \in 2..Len(change_node.children) :
              ( /\ IsSome(change_node.children[i].line_value)
                /\ change_node.children[i].line_value # change_node.children[1].line_value )
              => ~OnDay(Unwrap(change_result),
                        DayOfText(Unwrap(change_node.children[i].line_value)))
        /\ change_node.children # <<>> =>
              \A k \in 2..Len(change_node.children[1].children) :
                 ( /\ IsSome(change_node.children[1].children[k].line_value)
                   /\ change_node.children[1].children[k].line_value
                         # change_node.children[1].children[1].line_value )
                 => ~AtTime(Unwrap(change_result),
                            TimeOfText(Unwrap(change_node.children[1].children[k].line_value)))

\* the function has returned for a Change node whose first child is not a
\* Date node and whose Date node comes second, and whose first child has a
\* Time node as its second child: the timestamp is made of the texts of the
\* two first children, not of those of the Date and Time nodes
C29_Witness ==
    /\ IsSome(change_result)
    /\ Len(change_node.children) = 2
    /\ change_node.children[1].tag = Tag("Note")
    /\ change_node.children[2].tag = Tag("Date")
    /\ change_node.children[2].line_value = Some(DateText)
    /\ Len(change_node.children[1].children) = 2
    /\ change_node.children[1].children[1].tag = Tag("Note")
    /\ change_node.children[1].children[2].tag = Tag("Time")
    /\ Len(change_node.children[2].children) = 1
    /\ change_node.children[2].children[1].line_value = Some(TimeText)
    /\ OnDay(Unwrap(change_result), <<1990, 1, 1>>)
    /\ AtTime(Unwrap(change_result), <<1, 2, 3>>)

====
